---- MODULE Spec2Model ----
(***************************************************************************)
(* Realtime channel clients of the interview application.                  *)
(*                                                                         *)
(*   el : ElevenLabsConversationService   (src/lib/websocket-manager.ts)   *)
(*   wm : WebSocketManager                (src/lib/websocket-manager.ts)   *)
(*   gd : GeminiEmotionDetector           (src/unnamed/part_002)           *)
(*   app: IntegratedInterviewService      (src/unnamed/part_001) and the   *)
(*        interview store         (src/lib/stores/interview-store.ts)      *)
(*   cv : ElevenLabsConversationalService                                  *)
(*                           (src/lib/services/emotion-detection-service.ts) *)
(*   vc : ElevenLabsVoiceChat             (src/unnamed/part_003)           *)
(*   rt : ElevenLabsRealtimeConversation  (src/lib/elevenlabs-realtime.ts) *)
(*   ed : EmotionDetectionService                                          *)
(*                           (src/lib/services/emotion-detection-service.ts) *)
(*                                                                         *)
(* Every client is one record variable holding the fields of the object    *)
(* together with the part of the browser it owns (its sockets, its timers, *)
(* its audio elements) and a few observation fields (named obs...) that   *)
(* record what happened and are never read by a handler.  A handler is an  *)
(* operator from such a record to the record after the handler has run, so *)
(* that the handlers one browser task runs back to back compose.           *)
(***************************************************************************)
EXTENDS Integers, Sequences, FiniteSets, Bags, TLC

\* ---------------------------------------------------------------- bounds
MaxSockets == 5
MaxAudio == 3
MaxCalls == 3
MaxMsgs == 2
MaxCVSockets == 2
MaxAppSockets == 2
MaxVoiceSockets == 2
MaxPings == 2
MaxFrames == 2
MaxBatch == 2
MaxBatches == 2
MaxEDSockets == 2
MaxEDCalls == 3
MaxChunks == 4
MaxMetadata == 1
MaxSessions == 2
MaxChat == 2
MaxCompletes == 3

\* ------------------------------------------------------------- constants
maxReconnectAttempts == 3
reconnectDelay == 1000
WM_reconnectAttempts == 3
CV_maxReconnectAttempts == 3
GD_maxReconnectAttempts == 3

VARIABLES el, wm, cv, gd, app, vc, rt, ed

vars == <<el, wm, cv, gd, app, vc, rt, ed>>

ConnectionStatus == {"disconnected", "connecting", "connected", "error"}

\* =========================================================================
\* ElevenLabsConversationService
\* =========================================================================

SockIds == 1 .. MaxSockets
AudioIds == 1 .. MaxAudio

\* The object after its constructor, with no socket, timer or audio element.
EL_Init ==
    [ ws |-> 0,
      connectionStatus |-> "disconnected",
      reconnectAttempts |-> 0,
      audioQueue |-> << >>,
      isPlayingAudio |-> FALSE,
      \* browser side
      readyState |-> [s \in SockIds |-> "NONE"],
      opened |-> {},
      pending |-> {},
      timers |-> EmptyBag,
      nextSock |-> 1,
      wire |-> << >>,
      audio |-> [a \in AudioIds |-> "none"],
      nextAudio |-> 1,
      pongTimers |-> {},
      \* observations
      nextFrame |-> 1,
      obsCallbacks |-> << >>,
      obsLastFrame |-> "none",
      obsDropped |-> 0,
      \* the pings whose pong timer is pending, each with the socket that
      \* delivered it
      obsPings |-> {},
      obsCalls |-> 0,
      obsDown |-> FALSE,
      obsReconnects |-> 0,
      obsResolvedAt |-> "none",
      obsStarted |-> << >> ]

\* What a caller receives when the promise of a connect() call settles:
\* the status getConnectionStatus() returns at that moment.
EL_resolve(st) == [st EXCEPT !.obsResolvedAt = st.connectionStatus]

\* connect() returning early only when connected.
EL_connect_connectedOnly(st) ==
    IF st.connectionStatus = "connected"
    THEN EL_resolve(st)
    ELSE [st EXCEPT !.connectionStatus = "connecting",
                    !.ws = st.nextSock,
                    !.readyState[st.nextSock] = "CONNECTING",
                    !.pending = st.pending \cup {st.nextSock},
                    !.nextSock = st.nextSock + 1]

\* connect(), lines 386-426, up to the await: the early return, or a new
\* socket with the four handlers and the pending promise with its 10 s timer.
EL_connect(st) ==
    IF st.connectionStatus = "connected" \/ st.connectionStatus = "connecting"
    THEN EL_resolve(st)
    ELSE [st EXCEPT !.connectionStatus = "connecting",
                    !.ws = st.nextSock,
                    !.readyState[st.nextSock] = "CONNECTING",
                    !.pending = st.pending \cup {st.nextSock},
                    !.nextSock = st.nextSock + 1]

\* The test of sendMessage, line 510.
EL_canSend(st) == st.ws # 0 /\ st.readyState[st.ws] = "OPEN"

\* sendMessage, lines 509-515: written to this.ws when it is open, else only
\* a warning.
EL_sendMessage(st, m) ==
    IF EL_canSend(st)
    THEN [st EXCEPT !.wire = Append(st.wire, [sock |-> st.ws, msg |-> m])]
    ELSE st

\* sendConversationInitiation, lines 517-526.
EL_sendConversationInitiation(st) ==
    EL_sendMessage(st, [id |-> 0, kind |-> "conversation_initiation_client_data"])

\* sendAudioChunk, lines 540-545.
EL_sendAudioChunk(st, id) ==
    EL_sendMessage(st, [id |-> id, kind |-> "user_audio_chunk"])

\* sendUserMessage, lines 555-561.
EL_sendUserMessage(st, id) ==
    EL_sendMessage(st, [id |-> id, kind |-> "user_message"])

\* handleOpen, lines 428-437.
EL_handleOpen(st) ==
    EL_sendConversationInitiation(
        [st EXCEPT !.connectionStatus = "connected",
                   !.reconnectAttempts = 0,
                   !.obsReconnects = 0])

\* The 'open' listener of connect(), lines 409-412.
EL_promiseOpen(st, s) ==
    IF s \in st.pending
    THEN EL_resolve([st EXCEPT !.pending = st.pending \ {s}])
    ELSE st

\* handleError, lines 488-492.
EL_handleError(st) == [st EXCEPT !.connectionStatus = "error"]

\* The 'error' listener and the 10 s timeout of connect(), lines 404-417,
\* followed by the catch block, lines 421-425.
EL_promiseReject(st, s) ==
    IF s \in st.pending
    THEN [st EXCEPT !.pending = st.pending \ {s},
                    !.connectionStatus = "error"]
    ELSE st

\* handleClose with the comparison of the attempt limit off by one.
EL_handleClose_offByOne(st) ==
    LET closed == [st EXCEPT !.connectionStatus = "disconnected"]
    IN  IF st.reconnectAttempts <= maxReconnectAttempts
        THEN [closed EXCEPT !.timers =
                 st.timers (+) SetToBag({reconnectDelay * st.reconnectAttempts})]
        ELSE closed

\* handleClose, lines 494-507.
EL_handleClose(st) ==
    LET closed == [st EXCEPT !.connectionStatus = "disconnected"]
    IN  IF st.reconnectAttempts < maxReconnectAttempts
        THEN [closed EXCEPT !.timers =
                 st.timers (+) SetToBag({reconnectDelay * st.reconnectAttempts})]
        ELSE closed

\* The callback of the timer of handleClose, lines 501-505.
EL_reconnectTimer(st) ==
    LET counted == [st EXCEPT !.reconnectAttempts = st.reconnectAttempts + 1]
        after == EL_connect(counted)
    IN  IF after.nextSock # st.nextSock
        THEN [after EXCEPT !.obsReconnects = st.obsReconnects + 1]
        ELSE after

\* playNextAudio, lines 611-621, up to the await of audio.play().
EL_playNextAudio(st) ==
    IF Len(st.audioQueue) = 0
    THEN [st EXCEPT !.isPlayingAudio = FALSE]
    ELSE [st EXCEPT !.isPlayingAudio = TRUE,
                    !.audioQueue = Tail(st.audioQueue),
                    !.audio[Head(st.audioQueue)] = "starting",
                    !.obsStarted = Append(st.obsStarted, Head(st.audioQueue))]

\* handleAudioReceived, lines 580-609.
EL_handleAudioReceived(st) ==
    LET a == st.nextAudio
        queued == [st EXCEPT !.audioQueue = Append(st.audioQueue, a),
                             !.audio[a] = "queued",
                             !.nextAudio = a + 1]
    IN  IF ~st.isPlayingAudio THEN EL_playNextAudio(queued) ELSE queued

\* The frames a socket delivers: text that is not JSON, or an object with a
\* type; a ping carries its ping_event, whose event_id is n.
ELFrameTypes ==
    {"conversation_initiation_metadata", "user_transcript", "agent_response",
     "audio", "ping", "vad_score", "interruption", "client_tool_call"}

ELFrames(n) ==
    {[raw |-> "text"]}
        \cup {[raw |-> "json", type |-> t] : t \in ELFrameTypes \ {"ping"}}
        \cup {[raw |-> "json", type |-> "ping", ping_event |-> [event_id |-> n]]}

\* The callback the switch of handleMessage invokes for a type, lines 443-482.
EL_callbackOf(type) ==
    CASE type = "conversation_initiation_metadata" -> "onConversationMetadata"
      [] type = "user_transcript" -> "onUserTranscript"
      [] type = "agent_response" -> "onAgentResponse"
      [] type = "audio" -> "onAudioReceived"
      [] type = "vad_score" -> "onVADScore"
      [] type = "interruption" -> "onInterruption"
      [] OTHER -> "none"

\* A frame that JSON.parse rejects or whose type no case of the switch names.
EL_isBadFrame(frame) ==
    frame.raw # "json" \/ (frame.type # "ping" /\ EL_callbackOf(frame.type) = "none")

\* sendPong, lines 528-538: the pong is sent by a timer.
EL_sendPong(st, eventId) == [st EXCEPT !.pongTimers = st.pongTimers \cup {eventId}]

\* The callback of the timer of sendPong, lines 531-537.
EL_pongTimer(st, eventId) ==
    EL_sendMessage([st EXCEPT !.pongTimers = st.pongTimers \ {eventId}],
                   [id |-> eventId, kind |-> "pong"])

\* handleMessage whose catch block reports the frame as a connection error.
EL_handleMessage_reportsBad(st, frame) ==
    IF frame.raw # "json"
    THEN [EL_handleError(st) EXCEPT
             !.obsCallbacks = Append(st.obsCallbacks, "onConnectionError")]
    ELSE IF frame.type = "ping"
         THEN EL_sendPong(st, frame.ping_event.event_id)
         ELSE IF EL_callbackOf(frame.type) = "none"
              THEN st
              ELSE LET handled == IF frame.type = "audio"
                                  THEN EL_handleAudioReceived(st) ELSE st
                   IN  [handled EXCEPT !.obsCallbacks =
                           Append(st.obsCallbacks, EL_callbackOf(frame.type))]

\* handleMessage, lines 439-486: JSON.parse throws on text that is not JSON
\* and the catch block only logs; the default case only logs.
EL_handleMessage(st, frame) ==
    IF frame.raw # "json"
    THEN st
    ELSE IF frame.type = "ping"
         THEN EL_sendPong(st, frame.ping_event.event_id)
         ELSE IF EL_callbackOf(frame.type) = "none"
              THEN st
              ELSE LET handled == IF frame.type = "audio"
                                  THEN EL_handleAudioReceived(st) ELSE st
                   IN  [handled EXCEPT !.obsCallbacks =
                           Append(st.obsCallbacks, EL_callbackOf(frame.type))]

\* disconnect(), lines 645-658.  close() leaves a closed socket closed.
EL_disconnect(st) ==
    LET torn == IF st.ws # 0
                THEN [st EXCEPT !.readyState[st.ws] =
                          IF st.readyState[st.ws] \in {"CONNECTING", "OPEN"}
                          THEN "CLOSING" ELSE st.readyState[st.ws],
                       !.ws = 0]
                ELSE st
    IN  [torn EXCEPT !.connectionStatus = "disconnected",
                     !.audio = [a \in AudioIds |->
                                  IF st.audio[a] = "queued" THEN "cleared"
                                  ELSE st.audio[a]],
                     !.audioQueue = << >>,
                     !.isPlayingAudio = FALSE]

\* ------------------------------------------------------------- actions

\* The caller calls connect().
ELConnect ==
    /\ el.nextSock <= MaxSockets
    /\ el.obsCalls < MaxCalls
    /\ el' = [EL_connect(el) EXCEPT !.obsDown = FALSE,
                                     !.obsCalls = el.obsCalls + 1]
    /\ UNCHANGED <<wm, cv, gd, app, vc, rt, ed>>

\* The caller calls disconnect().
ELDisconnect ==
    /\ el.obsCalls < MaxCalls
    /\ el' = [EL_disconnect(el) EXCEPT !.obsDown = TRUE,
                                        !.obsCalls = el.obsCalls + 1]
    /\ UNCHANGED <<wm, cv, gd, app, vc, rt, ed>>

\* Socket s reports open: onopen, then the listener of connect().
EL_onOpen(st, s) ==
    EL_promiseOpen(EL_handleOpen([st EXCEPT !.readyState[s] = "OPEN",
                                            !.opened = st.opened \cup {s}]), s)

\* Socket s fails: onerror, the listener of connect(), then onclose.
EL_onFail(st, s) ==
    EL_handleClose(EL_promiseReject(EL_handleError(
        [st EXCEPT !.readyState[s] = "CLOSED", !.opened = st.opened \ {s}]), s))

\* Socket s is closed cleanly: onclose.
EL_onClose(st, s) ==
    EL_handleClose([st EXCEPT !.readyState[s] = "CLOSED",
                              !.opened = st.opened \ {s}])

\* A reconnect timer with delay d fires.
EL_onReconnectTimer(st, d) ==
    EL_reconnectTimer([st EXCEPT !.timers = st.timers (-) SetToBag({d})])

\* Socket s reports open.
ELSocketOpen(s) ==
    /\ el.readyState[s] = "CONNECTING"
    /\ el' = EL_onOpen(el, s)
    /\ UNCHANGED <<wm, cv, gd, app, vc, rt, ed>>

\* Socket s fails: the browser closes it and fires error, then close.
ELSocketFail(s) ==
    /\ el.readyState[s] \in {"CONNECTING", "OPEN", "CLOSING"}
    /\ el' = EL_onFail(el, s)
    /\ UNCHANGED <<wm, cv, gd, app, vc, rt, ed>>

\* Socket s, which had opened, is closed cleanly: close only.
ELSocketClose(s) ==
    /\ el.readyState[s] \in {"OPEN", "CLOSING"}
    /\ s \in el.opened
    /\ el' = EL_onClose(el, s)
    /\ UNCHANGED <<wm, cv, gd, app, vc, rt, ed>>

\* The 10 s timer of the connect() call that created socket s fires.
ELConnectTimeout(s) ==
    /\ s \in el.pending
    /\ el' = EL_promiseReject(el, s)
    /\ UNCHANGED <<wm, cv, gd, app, vc, rt, ed>>

\* A reconnect timer fires.
ELReconnectTimer(d) ==
    /\ BagIn(d, el.timers)
    /\ el.nextSock <= MaxSockets
    /\ el' = EL_onReconnectTimer(el, d)
    /\ UNCHANGED <<wm, cv, gd, app, vc, rt, ed>>

\* An audio frame arrives on an open socket.
ELAudioFrame(s) ==
    /\ el.readyState[s] = "OPEN"
    /\ el.nextAudio <= MaxAudio
    /\ el' = EL_handleAudioReceived(el)
    /\ UNCHANGED <<wm, cv, gd, app, vc, rt, ed>>

\* audio.play() resolves: onended and onerror are installed, lines 623-632.
ELPlayResolved(a) ==
    /\ el.audio[a] = "starting"
    /\ el' = [el EXCEPT !.audio[a] = "playing"]
    /\ UNCHANGED <<wm, cv, gd, app, vc, rt, ed>>

\* audio.play() rejects: the catch block, lines 634-638.
ELPlayRejected(a) ==
    /\ el.audio[a] = "starting"
    /\ el' = EL_playNextAudio([el EXCEPT !.audio[a] = "done"])
    /\ UNCHANGED <<wm, cv, gd, app, vc, rt, ed>>

\* The playing element fires ended or error, lines 623-632.
ELAudioFinished(a) ==
    /\ el.audio[a] = "playing"
    /\ el' = EL_playNextAudio([el EXCEPT !.audio[a] = "done"])
    /\ UNCHANGED <<wm, cv, gd, app, vc, rt, ed>>

\* Socket s, open or being closed, delivers a frame: onmessage.
ELFrame(s, frame) ==
    /\ s \in el.opened
    /\ el.nextFrame <= MaxFrames
    /\ (frame.raw = "json" /\ frame.type = "audio") => el.nextAudio <= MaxAudio
    /\ el' = [EL_handleMessage(el, frame) EXCEPT
                 !.nextFrame = el.nextFrame + 1,
                 !.obsLastFrame = IF EL_isBadFrame(frame) THEN "bad" ELSE "good",
                 !.obsDropped = IF EL_isBadFrame(frame)
                                THEN el.obsDropped + 1 ELSE el.obsDropped,
                 !.obsPings = IF frame.raw = "json" /\ frame.type = "ping"
                              THEN el.obsPings \cup
                                       {[sock |-> s, id |-> frame.ping_event.event_id]}
                              ELSE el.obsPings]
    /\ UNCHANGED <<wm, cv, gd, app, vc, rt, ed>>

\* The timer of the pong of ping n fires.
ELPongTimer(n) ==
    /\ n \in el.pongTimers
    /\ el' = [EL_pongTimer(el, n) EXCEPT
                 !.obsPings = {p \in el.obsPings : p.id # n}]
    /\ UNCHANGED <<wm, cv, gd, app, vc, rt, ed>>

\* =========================================================================
\* WebSocketManager
\* =========================================================================

MsgIds == 1 .. MaxMsgs
MsgTypes == {"audio", "text", "control"}

\* The object after its constructor.  reconnectTimer is "null", or the handle
\* of a timer that is "pending" or has "fired"; lostTimers counts the pending
\* timers whose handle the field no longer holds.
WM_Init ==
    [ ws |-> 0,
      connectionStatus |-> "disconnected",
      reconnectAttempts |-> 0,
      reconnectTimer |-> "null",
      messageQueue |-> << >>,
      \* browser side
      readyState |-> [s \in SockIds |-> "NONE"],
      opened |-> {},
      lostTimers |-> 0,
      nextSock |-> 1,
      wire |-> << >>,
      hung |-> FALSE,
      \* observations
      nextMsg |-> 1,
      obsCalls |-> 0,
      \* sockets created by the reconnect timer since the caller's last call
      obsByTimer |-> {},
      \* how many of them in a row closed without opening
      obsFailed |-> 0,
      obsExhausted |-> FALSE,
      \* the messages that were in the queue at a call of disconnect()
      obsStale |-> {} ]

WM_isOpen(st) == st.ws # 0 /\ st.readyState[st.ws] = "OPEN"

\* formatForGemini, lines 132-197: the envelope written for a message.
WM_formatForGemini(m) ==
    IF m.type = "control"
    THEN [id |-> m.id, envelope |-> "control"]
    ELSE [id |-> m.id, envelope |-> "client_content"]

\* connect(), lines 40-59.
WM_connect(st) ==
    IF WM_isOpen(st)
    THEN st
    ELSE [st EXCEPT !.connectionStatus = "connecting",
                    !.ws = st.nextSock,
                    !.readyState[st.nextSock] = "CONNECTING",
                    !.nextSock = st.nextSock + 1]

\* disconnect(), lines 61-74.
WM_disconnect(st) ==
    LET cleared == IF st.reconnectTimer # "null"
                   THEN [st EXCEPT !.reconnectTimer = "null"]
                   ELSE st
        torn == IF cleared.ws # 0
                THEN [cleared EXCEPT !.readyState[st.ws] =
                          IF st.readyState[st.ws] \in {"CONNECTING", "OPEN"}
                          THEN "CLOSING" ELSE st.readyState[st.ws],
                       !.ws = 0]
                ELSE cleared
    IN  [torn EXCEPT !.connectionStatus = "disconnected",
                     !.reconnectAttempts = 0]

\* sendMessage, lines 116-130.
WM_sendMessage(st, m) ==
    IF WM_isOpen(st)
    THEN [st EXCEPT !.wire = Append(st.wire,
                                [sock |-> st.ws, msg |-> WM_formatForGemini(m)])]
    ELSE [st EXCEPT !.messageQueue = Append(st.messageQueue, m)]

\* The loop of handleOpen, lines 214-219.  Each round shifts one message and
\* hands it to sendMessage; while this.ws is not open sendMessage pushes it
\* back, the length never reaches 0 and the handler never returns (hung).
RECURSIVE WM_flush(_)
WM_flush(st) ==
    IF Len(st.messageQueue) = 0
    THEN st
    ELSE IF WM_isOpen(st)
         THEN WM_flush(WM_sendMessage(
                  [st EXCEPT !.messageQueue = Tail(st.messageQueue)],
                  Head(st.messageQueue)))
         ELSE [st EXCEPT !.hung = TRUE]

\* handleOpen, lines 208-220.
WM_handleOpen(st) ==
    WM_flush([st EXCEPT !.connectionStatus = "connected",
                        !.reconnectAttempts = 0])

\* handleError, lines 269-273.
WM_handleError(st) == [st EXCEPT !.connectionStatus = "error"]

\* attemptReconnect starting over once the limit is reached.
WM_attemptReconnect_startsOver(st) ==
    IF st.reconnectAttempts >= WM_reconnectAttempts
    THEN [st EXCEPT !.reconnectAttempts = 0]
    ELSE [st EXCEPT !.reconnectAttempts = st.reconnectAttempts + 1,
                    !.reconnectTimer = "pending",
                    !.lostTimers = IF st.reconnectTimer = "pending"
                                   THEN st.lostTimers + 1 ELSE st.lostTimers]

\* attemptReconnect, lines 275-287.
WM_attemptReconnect(st) ==
    IF st.reconnectAttempts >= WM_reconnectAttempts
    THEN st
    ELSE [st EXCEPT !.reconnectAttempts = st.reconnectAttempts + 1,
                    !.reconnectTimer = "pending",
                    !.lostTimers = IF st.reconnectTimer = "pending"
                                   THEN st.lostTimers + 1 ELSE st.lostTimers]

\* handleClose, lines 259-267.
WM_handleClose(st) ==
    LET cleared == [st EXCEPT !.ws = 0]
    IN  IF st.connectionStatus # "disconnected"
        THEN WM_attemptReconnect([cleared EXCEPT !.connectionStatus = "disconnected"])
        ELSE cleared

\* ------------------------------------------------------------- actions

\* The caller calls connect().
WMConnect ==
    /\ ~wm.hung
    /\ wm.nextSock <= MaxSockets
    /\ wm.obsCalls < MaxCalls
    /\ wm' = [WM_connect(wm) EXCEPT !.obsCalls = wm.obsCalls + 1,
                                    !.obsByTimer = {},
                                    !.obsFailed = 0,
                                    !.obsExhausted = FALSE]
    /\ UNCHANGED <<el, cv, gd, app, vc, rt, ed>>

\* The caller calls disconnect().
WMDisconnect ==
    /\ ~wm.hung
    /\ wm.obsCalls < MaxCalls
    /\ wm' = [WM_disconnect(wm) EXCEPT
                 !.obsCalls = wm.obsCalls + 1,
                 !.obsByTimer = {},
                 !.obsFailed = 0,
                 !.obsStale = wm.obsStale \cup
                     {wm.messageQueue[i].id : i \in DOMAIN wm.messageQueue}]
    /\ UNCHANGED <<el, cv, gd, app, vc, rt, ed>>

\* The caller calls sendAudio, sendText or sendControl, lines 76-114.
WMSend(type) ==
    /\ ~wm.hung
    /\ wm.nextMsg <= MaxMsgs
    /\ wm' = [WM_sendMessage(wm, [id |-> wm.nextMsg, type |-> type])
                 EXCEPT !.nextMsg = wm.nextMsg + 1]
    /\ UNCHANGED <<el, cv, gd, app, vc, rt, ed>>

\* Socket s reports open.
WMSocketOpen(s) ==
    /\ ~wm.hung
    /\ wm.readyState[s] = "CONNECTING"
    /\ wm' = WM_handleOpen([wm EXCEPT !.readyState[s] = "OPEN",
                                      !.opened = wm.opened \cup {s},
                                      !.obsByTimer = wm.obsByTimer \ {s},
                                      !.obsFailed = 0])
    /\ UNCHANGED <<el, cv, gd, app, vc, rt, ed>>

\* What the end of socket s means for the count of failed reconnect attempts.
WMObserveEnd(st, s) ==
    IF s \in st.obsByTimer /\ s \notin st.opened
    THEN [st EXCEPT !.obsByTimer = st.obsByTimer \ {s},
                    !.obsFailed = st.obsFailed + 1,
                    !.obsExhausted = st.obsExhausted
                                       \/ st.obsFailed + 1 >= WM_reconnectAttempts]
    ELSE st

\* Socket s fails: the browser closes it and fires error, then close.
WMSocketFail(s) ==
    /\ ~wm.hung
    /\ wm.readyState[s] \in {"CONNECTING", "OPEN", "CLOSING"}
    /\ LET now == [wm EXCEPT !.readyState[s] = "CLOSED"]
           after == WM_handleClose(WM_handleError(now))
       IN  wm' = [WMObserveEnd(after, s) EXCEPT !.opened = wm.opened \ {s}]
    /\ UNCHANGED <<el, cv, gd, app, vc, rt, ed>>

\* Socket s, which had opened, is closed cleanly: close only.
WMSocketClose(s) ==
    /\ ~wm.hung
    /\ wm.readyState[s] \in {"OPEN", "CLOSING"}
    /\ s \in wm.opened
    /\ wm' = WM_handleClose([wm EXCEPT !.readyState[s] = "CLOSED",
                                       !.opened = wm.opened \ {s}])
    /\ UNCHANGED <<el, cv, gd, app, vc, rt, ed>>

\* The callback of a reconnect timer, lines 284-286: the timer whose handle
\* the field holds, or one whose handle was overwritten.
WMReconnectTimer(held) ==
    /\ ~wm.hung
    /\ wm.nextSock <= MaxSockets
    /\ IF held THEN wm.reconnectTimer = "pending" ELSE wm.lostTimers > 0
    /\ LET now == IF held
                  THEN [wm EXCEPT !.reconnectTimer = "fired"]
                  ELSE [wm EXCEPT !.lostTimers = wm.lostTimers - 1]
           after == WM_connect(now)
       IN  wm' = IF after.nextSock # wm.nextSock
                 THEN [after EXCEPT !.obsByTimer = wm.obsByTimer \cup {wm.nextSock}]
                 ELSE after
    /\ UNCHANGED <<el, cv, gd, app, vc, rt, ed>>

\* =========================================================================
\* ElevenLabsConversationalService
\* =========================================================================

CVSockIds == 1 .. MaxCVSockets
CVKinds == {"user_audio_chunk", "user_message", "contextual_update", "user_activity"}

\* The object after its constructor.
CV_Init ==
    [ ws |-> 0,
      connected |-> FALSE,
      reconnectAttempts |-> 0,
      audioQueue |-> << >>,
      isPlayingAudio |-> FALSE,
      conversationActive |-> FALSE,
      \* browser side
      readyState |-> [s \in CVSockIds |-> "NONE"],
      opened |-> {},
      pending |-> {},
      starting |-> {},
      timers |-> 0,
      nextSock |-> 1,
      wire |-> << >>,
      \* observations
      nextMsg |-> 1,
      obsCalls |-> 0,
      obsDropped |-> {} ]

\* The guard of the send methods, lines 615, 627, 640, 653 and 589.
CV_isOpen(st) == st.ws # 0 /\ st.readyState[st.ws] = "OPEN"

CV_write(st, m) == [st EXCEPT !.wire = Append(st.wire, [sock |-> st.ws, msg |-> m])]

\* connect(), lines 481-514, up to the await.
CV_connect(st) ==
    IF st.connected
    THEN st
    ELSE [st EXCEPT !.ws = st.nextSock,
                    !.readyState[st.nextSock] = "CONNECTING",
                    !.pending = st.pending \cup {st.nextSock},
                    !.nextSock = st.nextSock + 1]

\* startConversation(), lines 464-473: connect(), and after its promise
\* resolved conversationActive is set; the early return resolves at once.
CV_startConversation(st) ==
    IF st.connected
    THEN [st EXCEPT !.conversationActive = TRUE]
    ELSE [CV_connect(st) EXCEPT !.starting = st.starting \cup {st.nextSock}]

\* sendInitialConfiguration, lines 588-598.
CV_sendInitialConfiguration(st) ==
    IF ~CV_isOpen(st)
    THEN st
    ELSE CV_write(st, [id |-> 0, kind |-> "conversation_initiation_client_data"])

\* handleOpen, lines 516-524.
CV_handleOpen(st) ==
    CV_sendInitialConfiguration([st EXCEPT !.connected = TRUE,
                                           !.reconnectAttempts = 0])

\* The 'open' listener of connect(), lines 499-502, and the continuation of
\* startConversation, lines 467-468.
CV_promiseOpen(st, s) ==
    IF s \in st.pending
    THEN [st EXCEPT !.pending = st.pending \ {s},
                    !.starting = st.starting \ {s},
                    !.conversationActive =
                        IF s \in st.starting THEN TRUE ELSE st.conversationActive]
    ELSE st

\* The 'error' listener and the 10 s timeout of connect(), lines 495-507.
CV_promiseReject(st, s) ==
    [st EXCEPT !.pending = st.pending \ {s}, !.starting = st.starting \ {s}]

\* handleClose, lines 573-586.
CV_handleClose(st) ==
    LET closed == [st EXCEPT !.connected = FALSE]
    IN  IF st.conversationActive /\ st.reconnectAttempts < CV_maxReconnectAttempts
        THEN [closed EXCEPT !.timers = st.timers + 1]
        ELSE closed

\* A send method that checks only that this.ws is set.
CV_send_unchecked(st, m) ==
    IF st.ws = 0
    THEN st
    ELSE CV_write(st, m)

\* sendAudioChunk, sendUserMessage, sendContextualUpdate and
\* sendUserActivity, lines 614-659.
CV_send(st, m) ==
    IF ~CV_isOpen(st)
    THEN st
    ELSE CV_write(st, m)

\* disconnect(), lines 744-761.
CV_disconnect(st) ==
    LET torn == IF st.ws # 0
                THEN [st EXCEPT !.readyState[st.ws] =
                          IF st.readyState[st.ws] \in {"CONNECTING", "OPEN"}
                          THEN "CLOSING" ELSE st.readyState[st.ws],
                       !.ws = 0]
                ELSE st
    IN  [torn EXCEPT !.conversationActive = FALSE,
                     !.connected = FALSE,
                     !.audioQueue = << >>,
                     !.isPlayingAudio = FALSE]

\* ------------------------------------------------------------- actions

\* The caller calls startConversation().
CVStartConversation ==
    /\ cv.nextSock <= MaxCVSockets
    /\ cv.obsCalls < MaxCalls
    /\ cv' = [CV_startConversation(cv) EXCEPT !.obsCalls = cv.obsCalls + 1]
    /\ UNCHANGED <<el, wm, gd, app, vc, rt, ed>>

\* The caller calls endConversation(), lines 475-479, or disconnect().
CVDisconnect ==
    /\ cv.obsCalls < MaxCalls
    /\ cv' = [CV_disconnect(cv) EXCEPT !.obsCalls = cv.obsCalls + 1]
    /\ UNCHANGED <<el, wm, gd, app, vc, rt, ed>>

\* The caller calls one of the four send methods.
CVSend(kind) ==
    /\ cv.nextMsg <= MaxMsgs
    /\ cv' = [CV_send(cv, [id |-> cv.nextMsg, kind |-> kind]) EXCEPT
                 !.nextMsg = cv.nextMsg + 1,
                 !.obsDropped = IF cv.ws = 0 \/ cv.readyState[cv.ws] # "OPEN"
                                THEN cv.obsDropped \cup {cv.nextMsg}
                                ELSE cv.obsDropped]
    /\ UNCHANGED <<el, wm, gd, app, vc, rt, ed>>

\* Socket s reports open.
CVSocketOpen(s) ==
    /\ cv.readyState[s] = "CONNECTING"
    /\ cv' = CV_promiseOpen(CV_handleOpen([cv EXCEPT !.readyState[s] = "OPEN",
                                                     !.opened = cv.opened \cup {s}]), s)
    /\ UNCHANGED <<el, wm, gd, app, vc, rt, ed>>

\* Socket s fails: error (handleError only reports it), then close.
CVSocketFail(s) ==
    /\ cv.readyState[s] \in {"CONNECTING", "OPEN", "CLOSING"}
    /\ cv' = CV_handleClose(CV_promiseReject([cv EXCEPT !.readyState[s] = "CLOSED",
                                                        !.opened = cv.opened \ {s}], s))
    /\ UNCHANGED <<el, wm, gd, app, vc, rt, ed>>

\* Socket s, which had opened, is closed cleanly.
CVSocketClose(s) ==
    /\ cv.readyState[s] \in {"OPEN", "CLOSING"}
    /\ s \in cv.opened
    /\ cv' = CV_handleClose([cv EXCEPT !.readyState[s] = "CLOSED",
                                       !.opened = cv.opened \ {s}])
    /\ UNCHANGED <<el, wm, gd, app, vc, rt, ed>>

\* The 10 s timer of the connect() call that created socket s fires.
CVConnectTimeout(s) ==
    /\ s \in cv.pending
    /\ cv' = CV_promiseReject(cv, s)
    /\ UNCHANGED <<el, wm, gd, app, vc, rt, ed>>

\* The callback of the timer of handleClose, lines 580-584.
CVReconnectTimer ==
    /\ cv.timers > 0
    /\ cv.nextSock <= MaxCVSockets
    /\ cv' = CV_connect([cv EXCEPT !.timers = cv.timers - 1,
                                   !.reconnectAttempts = cv.reconnectAttempts + 1])
    /\ UNCHANGED <<el, wm, gd, app, vc, rt, ed>>

\* =========================================================================
\* GeminiEmotionDetector
\* =========================================================================

AppSockIds == 1 .. MaxAppSockets

\* The positive values of config.analysisInterval, in ms.
AnalysisIntervals == {1000, 2000, 2500, 5000, 6000}

\* The object after its constructor, for config.analysisInterval = interval.
GD_InitWith(interval) ==
    [ ws |-> 0,
      isConnected |-> FALSE,
      reconnectAttempts |-> 0,
      analysisTimer |-> FALSE,
      analysisInterval |-> interval,
      audioBuffer |-> << >>,
      readers |-> 0,
      nextChunk |-> 1,
      obsBadWrite |-> FALSE,
      \* browser side
      readyState |-> [s \in AppSockIds |-> "NONE"],
      opened |-> {},
      pending |-> {},
      timers |-> 0,
      nextSock |-> 1,
      wire |-> << >>,
      \* observations
      obsEverOpen |-> FALSE ]

\* The object as IntegratedInterviewService constructs it by default,
\* src/unnamed/part_001 line 116.
GD_Init == GD_InitWith(2000)

\* Array.prototype.slice(begin) for an integer begin: a negative begin counts
\* from the end, and -0 is 0, the start of the array.
ArraySlice(arr, begin) ==
    LET from == IF begin < 0
                THEN (IF Len(arr) + begin > 0 THEN Len(arr) + begin ELSE 0)
                ELSE (IF begin < Len(arr) THEN begin ELSE Len(arr))
    IN  SubSeq(arr, from + 1, Len(arr))

\* addAudioChunk, lines 248-257.
GD_addAudioChunk(st, chunk) ==
    LET pushed == Append(st.audioBuffer, chunk)
        maxChunks == 5000 \div st.analysisInterval
    IN  [st EXCEPT !.audioBuffer = IF Len(pushed) > maxChunks
                                   THEN ArraySlice(pushed, -maxChunks)
                                   ELSE pushed]

\* processAudioBufferForEmotion, lines 194-227, up to readAsDataURL.
GD_processAudioBufferForEmotion(st) ==
    IF st.ws = 0 \/ st.readyState[st.ws] # "OPEN" \/ Len(st.audioBuffer) = 0
    THEN st
    ELSE [st EXCEPT !.readers = st.readers + 1, !.audioBuffer = << >>]

\* reader.onload of processAudioBufferForEmotion, lines 205-216: this.ws!.send.
GD_readerLoaded(st) ==
    IF st.ws # 0 /\ st.readyState[st.ws] = "OPEN"
    THEN [st EXCEPT !.readers = st.readers - 1,
                    !.wire = Append(st.wire,
                                 [sock |-> st.ws, kind |-> "analyze_emotion"])]
    ELSE [st EXCEPT !.readers = st.readers - 1, !.obsBadWrite = TRUE]

\* The callback of the interval of startPeriodicAnalysis, lines 180-184, and
\* requestEmotionAnalysis, lines 259-263.
GD_requestEmotionAnalysis(st) ==
    IF Len(st.audioBuffer) > 0 THEN GD_processAudioBufferForEmotion(st) ELSE st

\* connect(), lines 36-74, up to the await.
GD_connect(st) ==
    IF st.isConnected \/ (st.ws # 0 /\ st.readyState[st.ws] = "CONNECTING")
    THEN st
    ELSE [st EXCEPT !.ws = st.nextSock,
                    !.readyState[st.nextSock] = "CONNECTING",
                    !.pending = st.pending \cup {st.nextSock},
                    !.nextSock = st.nextSock + 1]

\* sendEmotionAnalysisConfig, lines 156-177.
GD_sendEmotionAnalysisConfig(st) ==
    IF st.ws = 0 \/ st.readyState[st.ws] # "OPEN"
    THEN st
    ELSE [st EXCEPT !.wire = Append(st.wire,
                        [sock |-> st.ws, kind |-> "configure_emotion_analysis"])]

\* handleOpen, lines 93-104, with startPeriodicAnalysis, lines 179-185.
GD_handleOpen(st) ==
    [GD_sendEmotionAnalysisConfig([st EXCEPT !.isConnected = TRUE,
                                             !.reconnectAttempts = 0])
        EXCEPT !.analysisTimer = TRUE]

\* handleClose, lines 140-154, with stopPeriodicAnalysis, lines 187-192.
GD_handleClose(st) ==
    LET closed == [st EXCEPT !.isConnected = FALSE, !.analysisTimer = FALSE]
    IN  IF st.reconnectAttempts < GD_maxReconnectAttempts
        THEN [closed EXCEPT !.timers = st.timers + 1]
        ELSE closed

\* disconnect(), lines 285-296.
GD_disconnect(st) ==
    LET stopped == [st EXCEPT !.analysisTimer = FALSE]
        torn == IF st.ws # 0
                THEN [stopped EXCEPT !.readyState[st.ws] =
                          IF st.readyState[st.ws] \in {"CONNECTING", "OPEN"}
                          THEN "CLOSING" ELSE st.readyState[st.ws],
                       !.ws = 0]
                ELSE stopped
    IN  [torn EXCEPT !.isConnected = FALSE, !.audioBuffer = << >>]

\* Socket s reports open, fails, is closed; the reconnect timer fires.
GD_onOpen(st, s) ==
    GD_handleOpen([st EXCEPT !.readyState[s] = "OPEN",
                             !.opened = st.opened \cup {s},
                             !.pending = st.pending \ {s},
                             !.obsEverOpen = TRUE])

GD_onEnd(st, s) ==
    GD_handleClose([st EXCEPT !.readyState[s] = "CLOSED",
                              !.opened = st.opened \ {s},
                              !.pending = st.pending \ {s}])

GD_onReconnectTimer(st) ==
    GD_connect([st EXCEPT !.timers = st.timers - 1,
                          !.reconnectAttempts = st.reconnectAttempts + 1])

\* ------------------------------------------------------------- actions

\* The caller calls connect().
GDConnect ==
    /\ gd.nextSock <= MaxAppSockets
    /\ gd' = GD_connect(gd)
    /\ UNCHANGED <<el, wm, cv, app, vc, rt, ed>>

\* The caller calls disconnect().
GDDisconnect ==
    /\ gd.ws # 0
    /\ gd' = GD_disconnect(gd)
    /\ UNCHANGED <<el, wm, cv, app, vc, rt, ed>>

\* Socket s reports open.
GDSocketOpen(s) ==
    /\ gd.readyState[s] = "CONNECTING"
    /\ gd' = GD_onOpen(gd, s)
    /\ UNCHANGED <<el, wm, cv, app, vc, rt, ed>>

\* Socket s fails or is closed.
GDSocketEnd(s) ==
    /\ gd.readyState[s] \in {"CONNECTING", "OPEN", "CLOSING"}
    /\ gd' = GD_onEnd(gd, s)
    /\ UNCHANGED <<el, wm, cv, app, vc, rt, ed>>

\* A reconnect timer fires.
GDReconnectTimer ==
    /\ gd.timers > 0
    /\ gd.nextSock <= MaxAppSockets
    /\ gd' = GD_onReconnectTimer(gd)
    /\ UNCHANGED <<el, wm, cv, app, vc, rt, ed>>

\* The caller calls addAudioChunk().
GDAddAudioChunk ==
    /\ gd.nextChunk <= MaxChunks
    /\ gd' = [GD_addAudioChunk(gd, gd.nextChunk) EXCEPT
                 !.nextChunk = gd.nextChunk + 1]
    /\ UNCHANGED <<el, wm, cv, app, vc, rt, ed>>

\* The interval of the periodic analysis fires.
GDAnalysisTick ==
    /\ gd.analysisTimer
    /\ Len(gd.audioBuffer) > 0
    /\ gd' = GD_requestEmotionAnalysis(gd)
    /\ UNCHANGED <<el, wm, cv, app, vc, rt, ed>>

\* The FileReader of an analysis has read the audio.
GDReaderLoaded ==
    /\ gd.readers > 0
    /\ gd' = GD_readerLoaded(gd)
    /\ UNCHANGED <<el, wm, cv, app, vc, rt, ed>>

\* =========================================================================
\* IntegratedInterviewService and the interview store
\* =========================================================================

\* The store's initialState, lines 77-100, and the fields of the service,
\* lines 62-72, of the one service instance the model follows.  session is
\* the status of currentSession ("null" while there is none), sessionId its
\* id (0 while there is none) and messages its messages; elSock and gdSock
\* are the sockets whose connect() promises startInterview awaits.
APP_Init ==
    [ session |-> "null",
      sessionId |-> 0,
      messages |-> << >>,
      sessionHistory |-> << >>,
      isSetupComplete |-> FALSE,
      transcript |-> << >>,
      integratedService |-> FALSE,
      connectionState |-> [elevenlabs |-> FALSE, gemini |-> FALSE,
                           overall |-> "disconnected"],
      \* the service
      isActive |-> FALSE,
      connectionStatus |-> [elevenlabs |-> FALSE, gemini |-> FALSE],
      emotionUpdateTimer |-> FALSE,
      start |-> "none",
      elSock |-> 0,
      elPromise |-> "none",
      gdSock |-> 0,
      gdPromise |-> "none",
      readers |-> {},
      \* the store's emotion summary; a level is the fraction num / den
      currentEmotions |-> << >>,
      currentMood |-> "neutral",
      stressLevel |-> [num |-> 1, den |-> 2],
      engagementLevel |-> [num |-> 1, den |-> 2],
      \* observations
      nextMsg |-> 1,
      obsOwed |-> {},
      obsElRejected |-> FALSE,
      nextBatch |-> 1,
      obsThrew |-> FALSE,
      obsStressCalls |-> 0,
      nextSession |-> 1,
      nextChat |-> 1,
      \* the calls of completeSession, and whether the last one threw
      obsCompletes |-> 0,
      obsCompleteThrew |-> FALSE ]

\* InterviewStatus, src/types/interview.ts line 15.
InterviewStatus ==
    {"configuring", "starting", "in-progress", "paused", "completed", "error"}

\* MessageRole, src/types/interview.ts line 27.
MessageRole == {"user", "assistant", "system"}

\* initializeSession, store lines 106-120; the id stands for
\* crypto.randomUUID().
STORE_initializeSession_keepsTranscript(a, id) ==
    [a EXCEPT !.session = "configuring",
              !.sessionId = id,
              !.messages = << >>,
              !.isSetupComplete = TRUE]

STORE_initializeSession(a, id) ==
    [a EXCEPT !.session = "configuring",
              !.sessionId = id,
              !.messages = << >>,
              !.isSetupComplete = TRUE,
              !.transcript = << >>]

\* addMessage, store lines 306-320.
STORE_addMessage(a, message) ==
    IF a.session = "null"
    THEN a
    ELSE [a EXCEPT !.messages = Append(a.messages, message),
                   !.transcript = Append(a.transcript, message)]

\* The store's currentSession as an object.
STORE_currentSession(a) ==
    [id |-> a.sessionId, status |-> a.session, messages |-> a.messages]

\* completeSession, store lines 415-444, adding the session at the front.
STORE_completeSession_prepends(a) ==
    IF a.session = "null"
    THEN [a EXCEPT !.obsCompleteThrew = TRUE]
    ELSE [a EXCEPT !.sessionHistory = <<STORE_currentSession(a)>> \o a.sessionHistory,
                   !.session = "null",
                   !.sessionId = 0,
                   !.messages = << >>,
                   !.obsCompleteThrew = FALSE]

\* completeSession, store lines 415-444.
STORE_completeSession(a) ==
    IF a.session = "null"
    THEN [a EXCEPT !.obsCompleteThrew = TRUE]
    ELSE [a EXCEPT !.sessionHistory = Append(a.sessionHistory, STORE_currentSession(a)),
                   !.session = "null",
                   !.sessionId = 0,
                   !.messages = << >>,
                   !.obsCompleteThrew = FALSE]

\* set(initialState) of reset, store line 458.
STORE_reset(a) ==
    [a EXCEPT !.session = APP_Init.session,
              !.sessionId = APP_Init.sessionId,
              !.messages = APP_Init.messages,
              !.sessionHistory = APP_Init.sessionHistory,
              !.isSetupComplete = APP_Init.isSetupComplete,
              !.transcript = APP_Init.transcript,
              !.integratedService = APP_Init.integratedService,
              !.connectionState = APP_Init.connectionState,
              !.currentEmotions = APP_Init.currentEmotions,
              !.currentMood = APP_Init.currentMood,
              !.stressLevel = APP_Init.stressLevel,
              !.engagementLevel = APP_Init.engagementLevel]

\* updateSessionStatus, store lines 288-304.
STORE_updateSessionStatus(a, status) ==
    IF a.session = "null" THEN a ELSE [a EXCEPT !.session = status]

\* onConnectionStatusChange reporting 'connected' as soon as one side is.
STORE_onConnectionStatusChange_either(a, elevenLabsConnected, geminiConnected) ==
    [a EXCEPT !.connectionState =
        [elevenlabs |-> elevenLabsConnected,
         gemini |-> geminiConnected,
         overall |-> IF elevenLabsConnected \/ geminiConnected THEN "connected"
                     ELSE "disconnected"]]

\* onConnectionStatusChange, store lines 234-245.
STORE_onConnectionStatusChange(a, elevenLabsConnected, geminiConnected) ==
    [a EXCEPT !.connectionState =
        [elevenlabs |-> elevenLabsConnected,
         gemini |-> geminiConnected,
         overall |-> IF elevenLabsConnected /\ geminiConnected THEN "connected"
                     ELSE IF elevenLabsConnected \/ geminiConnected THEN "connecting"
                     ELSE "disconnected"]]

\* onError, store lines 247-255, and the catch of startInterview, 267-276.
STORE_onError(a) == [a EXCEPT !.connectionState.overall = "error"]

\* checkAndNotifyConnectionStatus, service lines 259-264.
APP_checkAndNotifyConnectionStatus(a) ==
    STORE_onConnectionStatusChange(a, a.connectionStatus.elevenlabs,
                                      a.connectionStatus.gemini)

\* elevenLabsCallbacks.onConnectionOpen, service lines 87-91, with the
\* store's onConversationStart, lines 173-177.
APP_onConnectionOpen(a) ==
    STORE_updateSessionStatus(
        APP_checkAndNotifyConnectionStatus(
            [a EXCEPT !.connectionStatus.elevenlabs = TRUE]), "in-progress")

\* elevenLabsCallbacks.onConnectionClose, service lines 92-96, with the
\* store's onConversationEnd, lines 179-182.
APP_onConnectionClose(a) ==
    STORE_updateSessionStatus(
        APP_checkAndNotifyConnectionStatus(
            [a EXCEPT !.connectionStatus.elevenlabs = FALSE]), "completed")

\* geminiCallbacks.onConnectionStatusChange, service lines 128-131.
APP_onGeminiStatusChange(a, connected) ==
    APP_checkAndNotifyConnectionStatus(
        [a EXCEPT !.connectionStatus.gemini = connected])

\* The rest of startInterview once Promise.all has settled, service lines
\* 145-161, and of the store's startInterview, lines 263-276.
APP_settleStart(a) ==
    IF a.start # "pending"
    THEN a
    ELSE IF a.elPromise = "rejected" \/ a.gdPromise = "rejected"
         THEN STORE_onError([a EXCEPT !.start = "rejected", !.isActive = FALSE])
         ELSE IF a.elPromise = "resolved" /\ a.gdPromise = "resolved"
              THEN [a EXCEPT !.start = "resolved", !.emotionUpdateTimer = TRUE]
              ELSE a

\* The promise of the awaited connect() of ElevenLabs settles.
APP_elSettled(a, s, how) ==
    IF s = a.elSock /\ a.elPromise = "pending"
    THEN APP_settleStart([a EXCEPT !.elPromise = how,
                                   !.obsElRejected = (how = "rejected")])
    ELSE a

\* The promise of the awaited connect() of the detector settles.
APP_gdSettled(a, s, how) ==
    IF s = a.gdSock /\ a.gdPromise = "pending"
    THEN APP_settleStart([a EXCEPT !.gdPromise = how])
    ELSE a

\* The service's sendUserMessage, lines 188-191.
APP_sendUserMessage(a, st, id) ==
    IF ~a.isActive THEN st ELSE EL_sendUserMessage(st, id)

\* The service's sendAudioChunk, lines 176-186, towards ElevenLabs.
APP_sendAudioChunk(a, st, id) ==
    IF ~a.isActive THEN st ELSE EL_sendAudioChunk(st, id)

\* The guard of the store's sendAudioChunk and sendUserMessage, lines 346
\* and 366.
STORE_canSend(a) ==
    a.integratedService /\ a.connectionState.overall = "connected"

\* The emotion samples of a batch: a name and an intensity in hundredths.
EmotionNames == {"joy", "stress", "Anxiety"}
Intensities == {30, 80}
EmotionData == [emotion : EmotionNames, intensity : Intensities]

\* The batches of at most MaxBatch samples.
EmotionBatches == UNION {[1 .. n -> EmotionData] : n \in 0 .. MaxBatch}

\* String.prototype.toLowerCase on the names above.
ToLowerCase(name) == IF name = "Anxiety" THEN "anxiety" ELSE name

\* emotions.reduce((prev, current) => current.intensity > prev.intensity ?
\* current : prev) without an initial value, store lines 219-221, on a batch
\* that is not empty: the first sample is the first prev.
RECURSIVE STORE_strongest(_, _)
STORE_strongest(prev, rest) ==
    IF Len(rest) = 0
    THEN prev
    ELSE STORE_strongest(IF Head(rest).intensity > prev.intensity
                         THEN Head(rest) ELSE prev, Tail(rest))

\* onEmotionDetected without the test of the length: reduce of an empty array
\* without an initial value throws a TypeError.
STORE_onEmotionDetected_unguarded(a, emotions) ==
    LET updated == [a EXCEPT !.currentEmotions = emotions]
    IN  IF Len(emotions) = 0
        THEN [updated EXCEPT !.obsThrew = TRUE]
        ELSE [updated EXCEPT !.currentMood =
                 STORE_strongest(Head(emotions), Tail(emotions)).emotion]

\* The store's onEmotionDetected, lines 214-224, with updateEmotions and
\* updateMood, lines 385-391.
STORE_onEmotionDetected(a, emotions) ==
    LET updated == [a EXCEPT !.currentEmotions = emotions]
    IN  IF Len(emotions) > 0
        THEN [updated EXCEPT !.currentMood =
                 STORE_strongest(Head(emotions), Tail(emotions)).emotion]
        ELSE updated

\* The filter of handleEmotionDetected, service lines 208-210.
APP_stressEmotions(emotions) ==
    SelectSeq(emotions, LAMBDA e :
        ToLowerCase(e.emotion) \in {"stress", "nervousness", "anxiety"})

\* reduce((sum, e) => sum + e.intensity, 0), service line 213.
RECURSIVE APP_sumIntensity(_)
APP_sumIntensity(emotions) ==
    IF Len(emotions) = 0 THEN 0
    ELSE Head(emotions).intensity + APP_sumIntensity(Tail(emotions))

\* handleEmotionDetected, service lines 199-216, on the store: the callback
\* onEmotionDetected, then onStressLevelChange with the store's
\* updateStressLevel, lines 230-232 and 393-395.  An exception of the first
\* callback ends the handler.
APP_handleEmotionDetected(a, emotions) ==
    LET notified == STORE_onEmotionDetected(a, emotions)
        stressEmotions == APP_stressEmotions(emotions)
    IN  IF notified.obsThrew
        THEN notified
        ELSE IF Len(stressEmotions) > 0
             THEN [notified EXCEPT
                      !.stressLevel = [num |-> APP_sumIntensity(stressEmotions),
                                       den |-> 100 * Len(stressEmotions)],
                      !.obsStressCalls = a.obsStressCalls + 1]
             ELSE notified

\* handleEmotionDetected, service lines 202-205, on the ElevenLabs service:
\* sendEmotionUpdate, lines 571-578 of src/lib/websocket-manager.ts.
APP_sendEmotionUpdate(a, st, emotions) ==
    IF STORE_onEmotionDetected(a, emotions).obsThrew \/ ~a.connectionStatus.elevenlabs
    THEN st
    ELSE EL_sendMessage(st, [id |-> 0, kind |-> "contextual_update"])

\* ------------------------------------------------------------- actions

\* The detector reports a batch: geminiCallbacks.onEmotionDetected, service
\* lines 122-124.
AppEmotionDetected(emotions) ==
    /\ app.start # "none"
    /\ app.nextBatch <= MaxBatches
    /\ ~app.obsThrew
    /\ el' = APP_sendEmotionUpdate(app, el, emotions)
    /\ app' = [APP_handleEmotionDetected(app, emotions) EXCEPT
                  !.nextBatch = app.nextBatch + 1]
    /\ UNCHANGED <<wm, cv, gd, vc, rt, ed>>

\* initializeSession, store lines 106-120.
StoreInitializeSession ==
    /\ app.nextSession <= MaxSessions
    /\ app' = [STORE_initializeSession(app, app.nextSession) EXCEPT
                  !.nextSession = app.nextSession + 1]
    /\ UNCHANGED <<el, wm, cv, gd, vc, rt, ed>>

\* addMessage, store lines 306-320, with a message of some role.
StoreAddMessage(role) ==
    /\ app.nextChat <= MaxChat
    /\ app' = [STORE_addMessage(app, [id |-> app.nextChat, role |-> role]) EXCEPT
                  !.nextChat = app.nextChat + 1]
    /\ UNCHANGED <<el, wm, cv, gd, vc, rt, ed>>

\* updateSessionStatus, store lines 288-304, called with some status.
StoreUpdateSessionStatus(status) ==
    /\ app' = STORE_updateSessionStatus(app, status)
    /\ UNCHANGED <<el, wm, cv, gd, vc, rt, ed>>

\* completeSession, store lines 415-444.
StoreCompleteSession ==
    /\ app.obsCompletes < MaxCompletes
    /\ app' = [STORE_completeSession(app) EXCEPT
                  !.obsCompletes = app.obsCompletes + 1]
    /\ UNCHANGED <<el, wm, cv, gd, vc, rt, ed>>

\* reset, store lines 446-459, with the service's stopInterview, lines
\* 164-173.
StoreReset ==
    /\ IF app.integratedService
       THEN /\ el' = EL_disconnect(el)
            /\ gd' = GD_disconnect(gd)
            /\ app' = STORE_reset([app EXCEPT !.isActive = FALSE,
                                              !.emotionUpdateTimer = FALSE])
       ELSE /\ app' = STORE_reset(app)
            /\ UNCHANGED <<el, gd>>
    /\ UNCHANGED <<wm, cv, vc, rt, ed>>

\* startInterview, store lines 122-277, which creates the service and calls
\* its startInterview, service lines 140-162.
StoreStartInterview ==
    /\ app.session # "null"
    /\ app.start = "none"
    /\ el' = EL_connect(el)
    /\ gd' = GD_connect(gd)
    /\ app' = [app EXCEPT !.connectionState.overall = "connecting",
                          !.integratedService = TRUE,
                          !.isActive = TRUE,
                          !.start = "pending",
                          !.elSock = el.nextSock, !.elPromise = "pending",
                          !.gdSock = gd.nextSock, !.gdPromise = "pending"]
    /\ UNCHANGED <<wm, cv, vc, rt, ed>>

\* stopInterview, store lines 279-286, with the service's, lines 164-173.
StoreStopInterview ==
    /\ app.start # "none"
    /\ IF app.integratedService
       THEN /\ el' = EL_disconnect(el)
            /\ gd' = GD_disconnect(gd)
            /\ app' = STORE_updateSessionStatus(
                          [app EXCEPT !.isActive = FALSE,
                                      !.emotionUpdateTimer = FALSE,
                                      !.integratedService = FALSE], "completed")
       ELSE /\ app' = STORE_updateSessionStatus(app, "completed")
            /\ UNCHANGED <<el, gd>>
    /\ UNCHANGED <<wm, cv, vc, rt, ed>>

\* The store's sendUserMessage, lines 363-372.
StoreSendUserMessage ==
    /\ app.nextMsg <= MaxMsgs
    /\ el' = IF STORE_canSend(app)
             THEN APP_sendUserMessage(app, el, app.nextMsg)
             ELSE el
    /\ app' = [app EXCEPT !.nextMsg = app.nextMsg + 1,
                          !.obsOwed = IF app.start # "none" /\ EL_canSend(el)
                                      THEN app.obsOwed \cup {app.nextMsg}
                                      ELSE app.obsOwed]
    /\ UNCHANGED <<wm, cv, gd, vc, rt, ed>>

\* The store's sendAudioChunk, lines 343-361, up to reader.readAsDataURL.
StoreSendAudioChunk ==
    /\ app.nextMsg <= MaxMsgs
    /\ app' = [app EXCEPT !.nextMsg = app.nextMsg + 1,
                          !.readers = IF STORE_canSend(app)
                                      THEN app.readers \cup {app.nextMsg}
                                      ELSE app.readers,
                          !.obsOwed = IF app.start # "none" /\ EL_canSend(el)
                                      THEN app.obsOwed \cup {app.nextMsg}
                                      ELSE app.obsOwed]
    /\ UNCHANGED <<el, wm, cv, gd, vc, rt, ed>>

\* reader.onload of the store's sendAudioChunk, lines 353-359.  A chunk read
\* after the socket has gone is no longer one ElevenLabs could receive.
StoreReaderLoaded(id) ==
    /\ id \in app.readers
    /\ el' = APP_sendAudioChunk(app, el, id)
    /\ app' = [app EXCEPT !.readers = app.readers \ {id},
                          !.obsOwed = IF EL_canSend(el) THEN app.obsOwed
                                      ELSE app.obsOwed \ {id}]
    /\ UNCHANGED <<wm, cv, gd, vc, rt, ed>>

\* The ElevenLabs socket s of the service reports open.
AppELSocketOpen(s) ==
    /\ app.start # "none"
    /\ el.readyState[s] = "CONNECTING"
    /\ el' = EL_onOpen(el, s)
    /\ app' = APP_elSettled(APP_onConnectionOpen(app), s, "resolved")
    /\ UNCHANGED <<wm, cv, gd, vc, rt, ed>>

\* The ElevenLabs socket s fails: onConnectionError, the rejection of the
\* promise, then onConnectionClose.
AppELSocketFail(s) ==
    /\ app.start # "none"
    /\ el.readyState[s] \in {"CONNECTING", "OPEN", "CLOSING"}
    /\ el' = EL_onFail(el, s)
    /\ app' = APP_onConnectionClose(APP_elSettled(STORE_onError(app), s, "rejected"))
    /\ UNCHANGED <<wm, cv, gd, vc, rt, ed>>

\* The ElevenLabs socket s is closed cleanly.
AppELSocketClose(s) ==
    /\ app.start # "none"
    /\ el.readyState[s] \in {"OPEN", "CLOSING"}
    /\ s \in el.opened
    /\ el' = EL_onClose(el, s)
    /\ app' = APP_onConnectionClose(app)
    /\ UNCHANGED <<wm, cv, gd, vc, rt, ed>>

\* The 10 s timer of the ElevenLabs connect() fires.
AppELConnectTimeout(s) ==
    /\ app.start # "none"
    /\ s \in el.pending
    /\ el' = EL_promiseReject(el, s)
    /\ app' = APP_elSettled(app, s, "rejected")
    /\ UNCHANGED <<wm, cv, gd, vc, rt, ed>>

\* A reconnect timer of the ElevenLabs service fires.
AppELReconnectTimer(d) ==
    /\ app.start # "none"
    /\ BagIn(d, el.timers)
    /\ el.nextSock <= MaxAppSockets
    /\ el' = EL_onReconnectTimer(el, d)
    /\ UNCHANGED <<wm, cv, gd, app, vc, rt, ed>>

\* The detector's socket s reports open.
AppGDSocketOpen(s) ==
    /\ gd.readyState[s] = "CONNECTING"
    /\ gd' = GD_onOpen(gd, s)
    /\ app' = APP_gdSettled(APP_onGeminiStatusChange(app, TRUE), s, "resolved")
    /\ UNCHANGED <<el, wm, cv, vc, rt, ed>>

\* The detector's socket s fails: handleError reports to onError, the
\* promise rejects, then handleClose.
AppGDSocketFail(s) ==
    /\ gd.readyState[s] \in {"CONNECTING", "OPEN", "CLOSING"}
    /\ gd' = GD_onEnd(gd, s)
    /\ app' = APP_onGeminiStatusChange(
                  APP_gdSettled(STORE_onError(app), s, "rejected"), FALSE)
    /\ UNCHANGED <<el, wm, cv, vc, rt, ed>>

\* The detector's socket s, which had opened, is closed cleanly.
AppGDSocketClose(s) ==
    /\ gd.readyState[s] \in {"OPEN", "CLOSING"}
    /\ s \in gd.opened
    /\ gd' = GD_onEnd(gd, s)
    /\ app' = APP_onGeminiStatusChange(app, FALSE)
    /\ UNCHANGED <<el, wm, cv, vc, rt, ed>>

\* The 10 s timer of the detector's connect() fires.
AppGDConnectTimeout(s) ==
    /\ s \in gd.pending
    /\ gd' = [gd EXCEPT !.pending = gd.pending \ {s}]
    /\ app' = APP_gdSettled(app, s, "rejected")
    /\ UNCHANGED <<el, wm, cv, vc, rt, ed>>

\* A reconnect timer of the detector fires.
AppGDReconnectTimer ==
    /\ gd.timers > 0
    /\ gd.nextSock <= MaxAppSockets
    /\ gd' = GD_onReconnectTimer(gd)
    /\ UNCHANGED <<el, wm, cv, app, vc, rt, ed>>

\* =========================================================================
\* ElevenLabsVoiceChat
\* =========================================================================

VCSockIds == 1 .. MaxVoiceSockets
PingIds == 1 .. MaxPings

\* The ping frame of the server, PingEvent of src/unnamed/part_004: the id
\* of the event is a member of ping_event, the frame has no other member.
PingFrame(n) == [type |-> "ping", ping_event |-> [event_id |-> n, ping_ms |-> 0]]

\* JSON.stringify of { type: 'pong', event_id: v } where v was read from
\* member `from` of object `obj`: a member that is missing reads as
\* undefined, and a property whose value is undefined is left out.
PongOf(obj, from) ==
    IF from \in DOMAIN obj
    THEN [type |-> "pong", event_id |-> obj[from]]
    ELSE [type |-> "pong"]

\* The frame that starts a conversation.
MetadataFrame == [type |-> "conversation_initiation_metadata"]

\* JSON.stringify of { user_audio_chunk: silenceChunk }.
SilenceChunk == [user_audio_chunk |-> "silence"]

\* The object after its constructor.  stream and audioContext tell whether
\* the field is not null; micPending counts the calls of startMicrophone
\* awaiting getUserMedia, initTimers the 1000 ms timers of handleMessage,
\* chunkTimers the timers that each send one chunk of silence, extraTimers
\* the 2000 ms timers of sendInitialMessages.
VC_Init ==
    [ ws |-> 0,
      isConnected |-> FALSE,
      stream |-> FALSE,
      audioContext |-> FALSE,
      \* browser side
      readyState |-> [s \in VCSockIds |-> "NONE"],
      opened |-> {},
      nextSock |-> 1,
      wire |-> << >>,
      micPending |-> 0,
      initTimers |-> 0,
      chunkTimers |-> 0,
      extraTimers |-> 0,
      \* observations
      nextPing |-> 1,
      nextMetadata |-> 1,
      obsPings |-> {},
      \* disconnect() has returned and connect() was not called since
      obsDisconnected |-> FALSE ]

\* connect(), lines 47-62: a new socket with the four handlers, whatever the
\* state of the socket the field held.
VC_connect(st) ==
    [st EXCEPT !.ws = st.nextSock,
               !.readyState[st.nextSock] = "CONNECTING",
               !.nextSock = st.nextSock + 1]

\* handleOpen, lines 67-73.
VC_handleOpen(st) == [st EXCEPT !.isConnected = TRUE]

\* The tests of lines 110 and 196.
VC_isOpen(st) == st.ws # 0 /\ st.readyState[st.ws] = "OPEN"

\* handleMessage, lines 78-124, for a ping frame: the pong takes its id from
\* data.event_id.
VC_handleMessage(st, data) ==
    IF data.type = "conversation_initiation_metadata"
    THEN [st EXCEPT !.micPending = st.micPending + 1,
                    !.initTimers = st.initTimers + 1]
    ELSE IF data.type = "ping" /\ VC_isOpen(st)
    THEN [st EXCEPT !.wire = Append(st.wire,
                        [sock |-> st.ws, msg |-> PongOf(data, "event_id")])]
    ELSE st

\* startMicrophone, lines 129-148, once getUserMedia has settled, with
\* setupAudioProcessing, lines 153-170.
VC_microphoneSettled(st, ok) ==
    IF ok
    THEN [st EXCEPT !.micPending = st.micPending - 1,
                    !.stream = TRUE,
                    !.audioContext = TRUE]
    ELSE [st EXCEPT !.micPending = st.micPending - 1]

\* sendInitialMessages, lines 207-241: three timers that send silence and
\* the 2000 ms timer.
VC_sendInitialMessages(st) ==
    IF VC_isOpen(st)
    THEN [st EXCEPT !.chunkTimers = st.chunkTimers + 3,
                    !.extraTimers = st.extraTimers + 1]
    ELSE st

\* The callback of a timer that sends silence, lines 214-221 and 233-239.
VC_sendSilence(st) ==
    IF VC_isOpen(st)
    THEN [st EXCEPT !.wire = Append(st.wire, [sock |-> st.ws, msg |-> SilenceChunk])]
    ELSE st

\* The callback of the 2000 ms timer, lines 228-241.
VC_extraSilence(st) ==
    IF st.isConnected
    THEN [st EXCEPT !.chunkTimers = st.chunkTimers + 5]
    ELSE st

\* stopMicrophone, lines 346-366.
VC_stopMicrophone(st) == [st EXCEPT !.stream = FALSE, !.audioContext = FALSE]

\* handleClose, lines 322-327.
VC_handleClose(st) == [st EXCEPT !.isConnected = FALSE]

\* disconnect(), lines 331-341.
VC_disconnect(st) ==
    LET torn == IF st.ws # 0
                THEN [st EXCEPT !.readyState[st.ws] =
                          IF st.readyState[st.ws] \in {"CONNECTING", "OPEN"}
                          THEN "CLOSING" ELSE st.readyState[st.ws],
                       !.ws = 0]
                ELSE st
    IN  [VC_stopMicrophone(torn) EXCEPT !.isConnected = FALSE]

\* ------------------------------------------------------------- actions

\* The caller calls connect().
VCConnect ==
    /\ vc.nextSock <= MaxVoiceSockets
    /\ vc' = [VC_connect(vc) EXCEPT !.obsDisconnected = FALSE]
    /\ UNCHANGED <<el, wm, cv, gd, app, rt, ed>>

\* The caller calls disconnect().
VCDisconnect ==
    /\ vc.ws # 0
    /\ vc' = [VC_disconnect(vc) EXCEPT !.obsDisconnected = TRUE]
    /\ UNCHANGED <<el, wm, cv, gd, app, rt, ed>>

\* Socket s reports open.
VCSocketOpen(s) ==
    /\ vc.readyState[s] = "CONNECTING"
    /\ vc' = VC_handleOpen([vc EXCEPT !.readyState[s] = "OPEN",
                                      !.opened = vc.opened \cup {s}])
    /\ UNCHANGED <<el, wm, cv, gd, app, rt, ed>>

\* Socket s fails (error, then close) or is closed cleanly (close): handleError
\* changes no field, lines 314-317.
VCSocketEnd(s) ==
    /\ vc.readyState[s] \in {"CONNECTING", "OPEN", "CLOSING"}
    /\ vc' = VC_handleClose([vc EXCEPT !.readyState[s] = "CLOSED",
                                       !.opened = vc.opened \ {s}])
    /\ UNCHANGED <<el, wm, cv, gd, app, rt, ed>>

\* A ping frame arrives on socket s, open or being closed.
VCPing(s) ==
    /\ s \in vc.opened
    /\ vc.nextPing <= MaxPings
    /\ vc' = [VC_handleMessage(vc, PingFrame(vc.nextPing)) EXCEPT
                 !.nextPing = vc.nextPing + 1,
                 !.obsPings = vc.obsPings \cup
                     {[sock |-> s, id |-> vc.nextPing,
                       open |-> vc.readyState[s] = "OPEN",
                       current |-> vc.ws = s]}]
    /\ UNCHANGED <<el, wm, cv, gd, app, rt, ed>>

\* The frame that starts the conversation arrives on socket s, open or
\* being closed.
VCMetadata(s) ==
    /\ s \in vc.opened
    /\ vc.nextMetadata <= MaxMetadata
    /\ vc' = [VC_handleMessage(vc, MetadataFrame) EXCEPT
                 !.nextMetadata = vc.nextMetadata + 1]
    /\ UNCHANGED <<el, wm, cv, gd, app, rt, ed>>

\* getUserMedia of a startMicrophone() call settles.
VCMicrophoneSettled(ok) ==
    /\ vc.micPending > 0
    /\ vc' = VC_microphoneSettled(vc, ok)
    /\ UNCHANGED <<el, wm, cv, gd, app, rt, ed>>

\* The 1000 ms timer of handleMessage fires, lines 88-90.
VCInitialMessagesTimer ==
    /\ vc.initTimers > 0
    /\ vc' = VC_sendInitialMessages([vc EXCEPT !.initTimers = vc.initTimers - 1])
    /\ UNCHANGED <<el, wm, cv, gd, app, rt, ed>>

\* A timer that sends one chunk of silence fires.
VCSilenceTimer ==
    /\ vc.chunkTimers > 0
    /\ vc' = VC_sendSilence([vc EXCEPT !.chunkTimers = vc.chunkTimers - 1])
    /\ UNCHANGED <<el, wm, cv, gd, app, rt, ed>>

\* The 2000 ms timer of sendInitialMessages fires.
VCExtraSilenceTimer ==
    /\ vc.extraTimers > 0
    /\ vc' = VC_extraSilence([vc EXCEPT !.extraTimers = vc.extraTimers - 1])
    /\ UNCHANGED <<el, wm, cv, gd, app, rt, ed>>

\* =========================================================================
\* ElevenLabsRealtimeConversation
\* =========================================================================

\* The object after its constructor, lines 34-61.
RT_Init ==
    [ ws |-> 0,
      status |-> "idle",
      audioContext |-> FALSE,
      \* browser side
      readyState |-> [s \in VCSockIds |-> "NONE"],
      opened |-> {},
      awaiting |-> 0,
      nextSock |-> 1,
      wire |-> << >>,
      \* observations
      nextPing |-> 1,
      obsPings |-> {} ]

\* The test of sendMessage, line 364.
RT_isOpen(st) == st.ws # 0 /\ st.readyState[st.ws] = "OPEN"

\* sendMessage, lines 363-369.
RT_sendMessage(st, m) ==
    IF RT_isOpen(st)
    THEN [st EXCEPT !.wire = Append(st.wire, [sock |-> st.ws, msg |-> m])]
    ELSE st

\* connect(), lines 80-93, up to the await of initAudioContext().
RT_connect(st) ==
    [st EXCEPT !.status = "connecting", !.awaiting = st.awaiting + 1]

\* connect(), lines 93-130, after the await: the socket with its handlers
\* when the audio context was made, the catch block when it was not.
RT_connectResumed(st, ok) ==
    IF ok
    THEN [st EXCEPT !.awaiting = st.awaiting - 1,
                    !.audioContext = TRUE,
                    !.ws = st.nextSock,
                    !.readyState[st.nextSock] = "CONNECTING",
                    !.nextSock = st.nextSock + 1]
    ELSE [st EXCEPT !.awaiting = st.awaiting - 1, !.status = "error"]

\* onopen, lines 99-102: sendInitiationData, lines 133-166.
RT_onopen(st) ==
    RT_sendMessage(st, [type |-> "conversation_initiation_client_data"])

\* handleIncomingMessage, lines 169-224, for a ping frame and for the
\* metadata frame.
RT_handleIncomingMessage(st, message) ==
    IF message.type = "ping"
    THEN RT_sendMessage(st, PongOf(message.ping_event, "event_id"))
    ELSE IF message.type = "conversation_initiation_metadata"
         THEN [st EXCEPT !.status = "connected"]
         ELSE st

\* cleanup, lines 393-404.
RT_cleanup(st) == [st EXCEPT !.audioContext = FALSE]

\* onclose, lines 113-117.
RT_onclose(st) == RT_cleanup([st EXCEPT !.status = "idle"])

\* onerror, lines 119-123.
RT_onerror(st) == [st EXCEPT !.status = "error"]

\* disconnect(), lines 383-390.
RT_disconnect(st) ==
    LET cleaned == RT_cleanup(st)
        torn == IF st.ws # 0
                THEN [cleaned EXCEPT !.readyState[st.ws] =
                          IF st.readyState[st.ws] \in {"CONNECTING", "OPEN"}
                          THEN "CLOSING" ELSE st.readyState[st.ws],
                       !.ws = 0]
                ELSE cleaned
    IN  [torn EXCEPT !.status = "idle"]

\* ------------------------------------------------------------- actions

\* The caller calls connect().
RTConnect ==
    /\ rt.nextSock + rt.awaiting <= MaxVoiceSockets
    /\ rt' = RT_connect(rt)
    /\ UNCHANGED <<el, wm, cv, gd, app, vc, ed>>

\* initAudioContext() of a connect() call settles.
RTAudioContextSettled(ok) ==
    /\ rt.awaiting > 0
    /\ rt' = RT_connectResumed(rt, ok)
    /\ UNCHANGED <<el, wm, cv, gd, app, vc, ed>>

\* The caller calls disconnect().
RTDisconnect ==
    /\ rt.ws # 0
    /\ rt' = RT_disconnect(rt)
    /\ UNCHANGED <<el, wm, cv, gd, app, vc, ed>>

\* Socket s reports open.
RTSocketOpen(s) ==
    /\ rt.readyState[s] = "CONNECTING"
    /\ rt' = RT_onopen([rt EXCEPT !.readyState[s] = "OPEN",
                                  !.opened = rt.opened \cup {s}])
    /\ UNCHANGED <<el, wm, cv, gd, app, vc, ed>>

\* Socket s fails: error, then close.
RTSocketFail(s) ==
    /\ rt.readyState[s] \in {"CONNECTING", "OPEN", "CLOSING"}
    /\ rt' = RT_onclose(RT_onerror([rt EXCEPT !.readyState[s] = "CLOSED",
                                              !.opened = rt.opened \ {s}]))
    /\ UNCHANGED <<el, wm, cv, gd, app, vc, ed>>

\* Socket s, which had opened, is closed cleanly: close only.
RTSocketClose(s) ==
    /\ rt.readyState[s] \in {"OPEN", "CLOSING"}
    /\ s \in rt.opened
    /\ rt' = RT_onclose([rt EXCEPT !.readyState[s] = "CLOSED",
                                   !.opened = rt.opened \ {s}])
    /\ UNCHANGED <<el, wm, cv, gd, app, vc, ed>>

\* The metadata frame arrives on socket s.
RTMetadata(s) ==
    /\ s \in rt.opened
    /\ rt.status # "connected"
    /\ rt' = RT_handleIncomingMessage(rt, [type |-> "conversation_initiation_metadata"])
    /\ UNCHANGED <<el, wm, cv, gd, app, vc, ed>>

\* A ping frame arrives on socket s, open or being closed.
RTPing(s) ==
    /\ s \in rt.opened
    /\ rt.nextPing <= MaxPings
    /\ rt' = [RT_handleIncomingMessage(rt, PingFrame(rt.nextPing)) EXCEPT
                 !.nextPing = rt.nextPing + 1,
                 !.obsPings = rt.obsPings \cup
                     {[sock |-> s, id |-> rt.nextPing,
                       open |-> rt.readyState[s] = "OPEN",
                       current |-> rt.ws = s]}]
    /\ UNCHANGED <<el, wm, cv, gd, app, vc, ed>>

\* =========================================================================
\* EmotionDetectionService
\* =========================================================================

EDSockIds == 1 .. MaxEDSockets

\* The object after its constructor, lines 25-44, for a configuration.  start
\* is where the running startDetection() call stands: awaiting the promise of
\* its Gemini socket startSock ("gemini"), loadFaceApi ("load") or
\* getUserMedia ("media"), or settled; sideLoad and sideMedia count the calls
\* of startFaceApiDetection made by onclose that await the same two things.
ED_Init(preferGemini, apiKey) ==
    [ config |-> [preferGemini |-> preferGemini, apiKey |-> apiKey],
      isActive |-> FALSE,
      isConnected |-> FALSE,
      analysisTimer |-> FALSE,
      geminiWs |-> 0,
      faceApiLoaded |-> FALSE,
      stream |-> FALSE,
      \* browser side
      readyState |-> [s \in EDSockIds |-> "NONE"],
      opened |-> {},
      nextSock |-> 1,
      wire |-> << >>,
      lostIntervals |-> 0,
      liveStreams |-> 0,
      start |-> "none",
      startSock |-> 0,
      sideLoad |-> 0,
      sideMedia |-> 0,
      \* observations
      obsCalls |-> 0,
      obsLastChange |-> "none",
      obsMethod |-> "none",
      obsFellBack |-> FALSE,
      obsMediaFailed |-> FALSE,
      \* stopDetection() has run and startDetection() was not called since
      obsStopped |-> FALSE ]

\* callbacks.onConnectionChange.
ED_onConnectionChange(st, connected) ==
    [st EXCEPT !.obsLastChange = IF connected THEN "true" ELSE "false"]

\* startPeriodicAnalysis, lines 272-282: the handle of a running interval is
\* overwritten.
ED_startPeriodicAnalysis(st) ==
    [st EXCEPT !.analysisTimer = TRUE,
               !.lostIntervals = IF st.analysisTimer
                                 THEN st.lostIntervals + 1 ELSE st.lostIntervals]

\* stopPeriodicAnalysis, lines 284-289.
ED_stopPeriodicAnalysis(st) == [st EXCEPT !.analysisTimer = FALSE]

\* startFaceApiDetection, lines 141-149, up to its first await.
ED_faceApiStage(st) == IF ~st.faceApiLoaded THEN "load" ELSE "media"

\* startFaceApiDetection, lines 152-162, once getUserMedia has resolved.
ED_faceApiStarted(st) ==
    [st EXCEPT !.stream = TRUE, !.liveStreams = st.liveStreams + 1]

\* startDetection, lines 56-58, after its await.
ED_startDetectionResolved(st) ==
    ED_startPeriodicAnalysis(ED_onConnectionChange(
        [st EXCEPT !.isConnected = TRUE, !.start = "resolved"], TRUE))

\* The catch block of startDetection, lines 60-66.
ED_startDetectionRejected(st) ==
    ED_onConnectionChange(
        [st EXCEPT !.isConnected = FALSE, !.start = "rejected"], FALSE)

\* startDetection, lines 46-54, up to its await, with startGeminiDetection,
\* lines 87-131, up to its await.
ED_startDetection(st) ==
    LET active == [st EXCEPT !.isActive = TRUE]
    IN  IF st.config.preferGemini /\ st.config.apiKey
        THEN [active EXCEPT !.geminiWs = st.nextSock,
                            !.readyState[st.nextSock] = "CONNECTING",
                            !.nextSock = st.nextSock + 1,
                            !.start = "gemini",
                            !.startSock = st.nextSock,
                            !.obsMethod = "gemini"]
        ELSE [active EXCEPT !.start = ED_faceApiStage(st),
                            !.obsMethod = "face-api"]

\* The catch block of startGeminiDetection passing the error on.
ED_geminiCatch_rethrows(st) == ED_startDetectionRejected(st)

\* The catch block of startGeminiDetection, lines 133-136.
ED_geminiCatch(st) ==
    [st EXCEPT !.start = ED_faceApiStage(st),
               !.obsMethod = "face-api",
               !.obsFellBack = TRUE]

\* sendGeminiEmotionConfig, lines 206-227.
ED_sendGeminiEmotionConfig(st) ==
    IF st.geminiWs = 0 \/ st.readyState[st.geminiWs] # "OPEN"
    THEN st
    ELSE [st EXCEPT !.wire = Append(st.wire, st.geminiWs)]

\* The 'open' listener of startGeminiDetection, lines 120-123.
ED_openListener(st, s) ==
    IF st.start = "gemini" /\ st.startSock = s
    THEN ED_startDetectionResolved(st)
    ELSE st

\* The 'error' listener and the timeout of startGeminiDetection, lines
\* 115-128.
ED_rejectListener(st, s) ==
    IF st.start = "gemini" /\ st.startSock = s
    THEN ED_geminiCatch(st)
    ELSE st

\* onclose, lines 106-113.
ED_onclose(st) ==
    IF st.isActive
    THEN IF ED_faceApiStage(st) = "load"
         THEN [st EXCEPT !.sideLoad = st.sideLoad + 1]
         ELSE [st EXCEPT !.sideMedia = st.sideMedia + 1]
    ELSE st

\* stopDetection, lines 69-85.
ED_stopDetection(st) ==
    LET stopped == ED_stopPeriodicAnalysis([st EXCEPT !.isActive = FALSE])
        torn == IF st.geminiWs # 0
                THEN [stopped EXCEPT !.readyState[st.geminiWs] =
                          IF st.readyState[st.geminiWs] \in {"CONNECTING", "OPEN"}
                          THEN "CLOSING" ELSE st.readyState[st.geminiWs],
                       !.geminiWs = 0]
                ELSE stopped
        released == IF st.stream
                    THEN [torn EXCEPT !.stream = FALSE,
                                      !.liveStreams = st.liveStreams - 1]
                    ELSE torn
    IN  ED_onConnectionChange([released EXCEPT !.isConnected = FALSE], FALSE)

\* ------------------------------------------------------------- actions

\* The caller calls startDetection(); the earlier call has settled.
EDStartDetection ==
    /\ ed.start \in {"none", "resolved", "rejected"}
    /\ ed.obsCalls < MaxEDCalls
    /\ ed.nextSock <= MaxEDSockets
    /\ ed' = [ED_startDetection(ed) EXCEPT !.obsCalls = ed.obsCalls + 1,
                                            !.obsFellBack = FALSE,
                                            !.obsMediaFailed = FALSE,
                                            !.obsStopped = FALSE]
    /\ UNCHANGED <<el, wm, cv, gd, app, vc, rt>>

\* The caller calls stopDetection().
EDStopDetection ==
    /\ ed.obsCalls < MaxEDCalls
    /\ ed' = [ED_stopDetection(ed) EXCEPT !.obsCalls = ed.obsCalls + 1,
                                           !.obsStopped = TRUE]
    /\ UNCHANGED <<el, wm, cv, gd, app, vc, rt>>

\* Socket s reports open: onopen, then the listener.
EDSocketOpen(s) ==
    /\ ed.readyState[s] = "CONNECTING"
    /\ ed' = ED_openListener(ED_sendGeminiEmotionConfig(
                 [ed EXCEPT !.readyState[s] = "OPEN",
                            !.opened = ed.opened \cup {s}]), s)
    /\ UNCHANGED <<el, wm, cv, gd, app, vc, rt>>

\* Socket s fails: onerror (which only reports), the listener, then onclose.
EDSocketFail(s) ==
    /\ ed.readyState[s] \in {"CONNECTING", "OPEN", "CLOSING"}
    /\ ed' = ED_onclose(ED_rejectListener(
                 [ed EXCEPT !.readyState[s] = "CLOSED",
                            !.opened = ed.opened \ {s}], s))
    /\ UNCHANGED <<el, wm, cv, gd, app, vc, rt>>

\* Socket s, which had opened, is closed cleanly: onclose.
EDSocketClose(s) ==
    /\ ed.readyState[s] \in {"OPEN", "CLOSING"}
    /\ s \in ed.opened
    /\ ed' = ED_onclose([ed EXCEPT !.readyState[s] = "CLOSED",
                                   !.opened = ed.opened \ {s}])
    /\ UNCHANGED <<el, wm, cv, gd, app, vc, rt>>

\* The 10 s timer of startGeminiDetection fires; the socket stays as it is.
EDConnectTimeout ==
    /\ ed.start = "gemini"
    /\ ed' = ED_rejectListener(ed, ed.startSock)
    /\ UNCHANGED <<el, wm, cv, gd, app, vc, rt>>

\* loadFaceApi, lines 168-187, of the startDetection() call resolves.
EDFaceApiLoaded ==
    /\ ed.start = "load"
    /\ ed' = [ed EXCEPT !.faceApiLoaded = TRUE, !.start = "media"]
    /\ UNCHANGED <<el, wm, cv, gd, app, vc, rt>>

\* getUserMedia of the startDetection() call settles, lines 152-166.
EDMediaSettled(ok) ==
    /\ ed.start = "media"
    /\ ed' = IF ok
             THEN ED_startDetectionResolved(ED_faceApiStarted(ed))
             ELSE ED_startDetectionRejected([ed EXCEPT !.obsMediaFailed = TRUE])
    /\ UNCHANGED <<el, wm, cv, gd, app, vc, rt>>

\* loadFaceApi of a startFaceApiDetection() call of onclose resolves.
EDSideFaceApiLoaded ==
    /\ ed.sideLoad > 0
    /\ ed' = [ed EXCEPT !.faceApiLoaded = TRUE,
                        !.sideLoad = ed.sideLoad - 1,
                        !.sideMedia = ed.sideMedia + 1]
    /\ UNCHANGED <<el, wm, cv, gd, app, vc, rt>>

\* getUserMedia of a startFaceApiDetection() call of onclose settles; its
\* failure is only logged, line 111.
EDSideMediaSettled(ok) ==
    /\ ed.sideMedia > 0
    /\ ed' = IF ok
             THEN ED_faceApiStarted([ed EXCEPT !.sideMedia = ed.sideMedia - 1])
             ELSE [ed EXCEPT !.sideMedia = ed.sideMedia - 1]
    /\ UNCHANGED <<el, wm, cv, gd, app, vc, rt>>

\* =========================================================================
\* Specifications
\* =========================================================================

Init ==
    /\ el = EL_Init /\ wm = WM_Init /\ cv = CV_Init
    /\ gd = GD_Init /\ app = APP_Init
    /\ vc = VC_Init /\ rt = RT_Init
    /\ ed = ED_Init(TRUE, TRUE)

ELSocketEvents ==
    \/ \E s \in SockIds : ELSocketOpen(s)
    \/ \E s \in SockIds : ELSocketFail(s)
    \/ \E s \in SockIds : ELSocketClose(s)
    \/ \E s \in SockIds : ELConnectTimeout(s)
    \/ \E d \in BagToSet(el.timers) : ELReconnectTimer(d)

ELAudioEvents ==
    \/ \E s \in SockIds : ELAudioFrame(s)
    \/ \E a \in AudioIds : ELPlayResolved(a)
    \/ \E a \in AudioIds : ELPlayRejected(a)
    \/ \E a \in AudioIds : ELAudioFinished(a)

\* The connection of the service: the caller's calls, socket and timer events.
NextEL == ELConnect \/ ELDisconnect \/ ELSocketEvents

SpecEL == Init /\ [][NextEL]_vars

\* The connection together with the playback of received audio.
NextELAudio == ELConnect \/ ELDisconnect \/ ELSocketEvents \/ ELAudioEvents

SpecELAudio == Init /\ [][NextELAudio]_vars

\* The service after its first connect(), driven by socket, timer and audio
\* events only.
ELFirstConnect == el.nextSock = 1 /\ ELConnect

NextELEvents == ELFirstConnect \/ ELSocketEvents \/ ELAudioEvents

SpecELEvents == Init /\ [][NextELEvents]_vars

\* The service after its first connect(), driven by socket and timer events
\* and by the frames its sockets deliver.
NextELFrames ==
    \/ ELFirstConnect
    \/ ELSocketEvents
    \/ \E s \in SockIds : \E frame \in ELFrames(el.nextFrame) : ELFrame(s, frame)
    \/ \E n \in 1 .. MaxFrames : ELPongTimer(n)

SpecELFrames == Init /\ [][NextELFrames]_vars

\* The manager under the caller's calls, socket and timer events.
NextWM ==
    \/ WMConnect
    \/ WMDisconnect
    \/ \E type \in MsgTypes : WMSend(type)
    \/ \E s \in SockIds : WMSocketOpen(s)
    \/ \E s \in SockIds : WMSocketFail(s)
    \/ \E s \in SockIds : WMSocketClose(s)
    \/ \E held \in BOOLEAN : WMReconnectTimer(held)

SpecWM == Init /\ [][NextWM]_vars

\* The manager's connection alone: connect(), disconnect(), socket and timer
\* events, no message sent.
NextWMConnection ==
    \/ WMConnect
    \/ WMDisconnect
    \/ \E s \in SockIds : WMSocketOpen(s)
    \/ \E s \in SockIds : WMSocketFail(s)
    \/ \E s \in SockIds : WMSocketClose(s)
    \/ \E held \in BOOLEAN : WMReconnectTimer(held)

SpecWMConnection == Init /\ [][NextWMConnection]_vars

\* The conversational service under the caller's calls and its events.
NextCV ==
    \/ CVStartConversation
    \/ CVDisconnect
    \/ \E kind \in CVKinds : CVSend(kind)
    \/ \E s \in CVSockIds : CVSocketOpen(s)
    \/ \E s \in CVSockIds : CVSocketFail(s)
    \/ \E s \in CVSockIds : CVSocketClose(s)
    \/ \E s \in CVSockIds : CVConnectTimeout(s)
    \/ CVReconnectTimer

SpecCV == Init /\ [][NextCV]_vars

\* One interview: the store, the service it creates and the two clients.
NextApp ==
    \/ StoreInitializeSession
    \/ StoreStartInterview
    \/ StoreStopInterview
    \/ StoreReset
    \/ StoreSendUserMessage
    \/ StoreSendAudioChunk
    \/ \E id \in MsgIds : StoreReaderLoaded(id)
    \/ \E s \in AppSockIds : AppELSocketOpen(s)
    \/ \E s \in AppSockIds : AppELSocketFail(s)
    \/ \E s \in AppSockIds : AppELSocketClose(s)
    \/ \E s \in AppSockIds : AppELConnectTimeout(s)
    \/ \E d \in BagToSet(el.timers) : AppELReconnectTimer(d)
    \/ \E s \in AppSockIds : AppGDSocketOpen(s)
    \/ \E s \in AppSockIds : AppGDSocketFail(s)
    \/ \E s \in AppSockIds : AppGDSocketClose(s)
    \/ \E s \in AppSockIds : AppGDConnectTimeout(s)
    \/ AppGDReconnectTimer

SpecApp == Init /\ [][NextApp]_vars

\* One interview seen from the store's connection state: the service's
\* start, stop and reset and the events of the two clients' sockets.
NextConnection ==
    \/ StoreInitializeSession
    \/ StoreStartInterview
    \/ StoreStopInterview
    \/ StoreReset
    \/ \E s \in AppSockIds : AppELSocketOpen(s)
    \/ \E s \in AppSockIds : AppELSocketFail(s)
    \/ \E s \in AppSockIds : AppELSocketClose(s)
    \/ \E s \in AppSockIds : AppELConnectTimeout(s)
    \/ \E d \in BagToSet(el.timers) : AppELReconnectTimer(d)
    \/ \E s \in AppSockIds : AppGDSocketOpen(s)
    \/ \E s \in AppSockIds : AppGDSocketFail(s)
    \/ \E s \in AppSockIds : AppGDSocketClose(s)
    \/ \E s \in AppSockIds : AppGDConnectTimeout(s)
    \/ AppGDReconnectTimer

SpecConnection == Init /\ [][NextConnection]_vars

\* The store under the calls of its session actions.
NextStore ==
    \/ StoreInitializeSession
    \/ \E role \in MessageRole : StoreAddMessage(role)
    \/ \E status \in InterviewStatus : StoreUpdateSessionStatus(status)
    \/ StoreCompleteSession
    \/ StoreReset

SpecStore == Init /\ [][NextStore]_vars

\* The store once initializeSession has configured the first session.
InitEmotion ==
    /\ el = EL_Init /\ wm = WM_Init /\ cv = CV_Init
    /\ gd = GD_Init
    /\ app = [STORE_initializeSession(APP_Init, 1) EXCEPT !.nextSession = 2]
    /\ vc = VC_Init /\ rt = RT_Init
    /\ ed = ED_Init(TRUE, TRUE)

\* One interview in which the detector reports batches of emotions.
NextEmotion ==
    \/ StoreStartInterview
    \/ \E s \in AppSockIds : AppELSocketOpen(s)
    \/ \E s \in AppSockIds : AppELSocketClose(s)
    \/ \E s \in AppSockIds : AppGDSocketOpen(s)
    \/ \E emotions \in EmotionBatches : AppEmotionDetected(emotions)

SpecEmotion == InitEmotion /\ [][NextEmotion]_vars

\* The emotion detection service of any configuration.
InitED ==
    /\ el = EL_Init /\ wm = WM_Init /\ cv = CV_Init
    /\ gd = GD_Init /\ app = APP_Init
    /\ vc = VC_Init /\ rt = RT_Init
    /\ ed \in {ED_Init(preferGemini, apiKey) : preferGemini, apiKey \in BOOLEAN}

\* The service under the caller's calls, socket events and the settling of
\* what its calls await.
NextED ==
    \/ EDStartDetection
    \/ EDStopDetection
    \/ \E s \in EDSockIds : EDSocketOpen(s)
    \/ \E s \in EDSockIds : EDSocketFail(s)
    \/ \E s \in EDSockIds : EDSocketClose(s)
    \/ EDConnectTimeout
    \/ EDFaceApiLoaded
    \/ \E ok \in BOOLEAN : EDMediaSettled(ok)
    \/ EDSideFaceApiLoaded
    \/ \E ok \in BOOLEAN : EDSideMediaSettled(ok)

SpecED == InitED /\ [][NextED]_vars

\* The emotion detector of any analysis interval.
InitGD ==
    /\ el = EL_Init /\ wm = WM_Init /\ cv = CV_Init
    /\ app = APP_Init /\ vc = VC_Init /\ rt = RT_Init
    /\ ed = ED_Init(TRUE, TRUE)
    /\ gd \in {GD_InitWith(interval) : interval \in AnalysisIntervals}

\* The detector under the caller's calls, socket and timer events.
NextGD ==
    \/ GDConnect
    \/ GDDisconnect
    \/ \E s \in AppSockIds : GDSocketOpen(s)
    \/ \E s \in AppSockIds : GDSocketEnd(s)
    \/ GDReconnectTimer
    \/ GDAddAudioChunk
    \/ GDAnalysisTick
    \/ GDReaderLoaded

SpecGD == InitGD /\ [][NextGD]_vars

\* The voice chat under the caller's calls, socket events and pings.
NextVC ==
    \/ VCConnect
    \/ VCDisconnect
    \/ \E s \in VCSockIds : VCSocketOpen(s)
    \/ \E s \in VCSockIds : VCSocketEnd(s)
    \/ \E s \in VCSockIds : VCPing(s)
    \/ \E s \in VCSockIds : VCMetadata(s)
    \/ \E ok \in BOOLEAN : VCMicrophoneSettled(ok)
    \/ VCInitialMessagesTimer
    \/ VCSilenceTimer
    \/ VCExtraSilenceTimer

SpecVC == Init /\ [][NextVC]_vars

\* The realtime conversation under the caller's calls, socket events and
\* frames.
NextRT ==
    \/ RTConnect
    \/ RTDisconnect
    \/ \E ok \in BOOLEAN : RTAudioContextSettled(ok)
    \/ \E s \in VCSockIds : RTSocketOpen(s)
    \/ \E s \in VCSockIds : RTSocketFail(s)
    \/ \E s \in VCSockIds : RTSocketClose(s)
    \/ \E s \in VCSockIds : RTMetadata(s)
    \/ \E s \in VCSockIds : RTPing(s)

SpecRT == Init /\ [][NextRT]_vars

\* =========================================================================
\* Properties
\* =========================================================================

ELLive == {s \in SockIds : el.readyState[s] \in {"CONNECTING", "OPEN", "CLOSING"}}

\* C1: driven by open, close, error and timer events only, the service opens
\* at most maxReconnectAttempts sockets from its reconnect timer between two
\* opens, and once it has opened that many no reconnect timer is pending.
C1_AtMostThreeReconnects ==
    /\ el.obsReconnects <= maxReconnectAttempts
    /\ el.obsReconnects = maxReconnectAttempts => el.timers = EmptyBag

\* C1 witness: the third reconnect attempt has failed and nothing is left.
C1_Witness ==
    /\ el.obsReconnects = maxReconnectAttempts
    /\ ELLive = {}
    /\ el.timers = EmptyBag
    /\ el.connectionStatus = "disconnected"

\* C2: from disconnect() until the caller's next connect() no socket is
\* created and no reconnect attempt is counted.
C2_NoReconnectAfterDisconnect ==
    [][(el.obsDown /\ el'.obsDown) =>
          /\ el'.nextSock = el.nextSock
          /\ el'.reconnectAttempts <= el.reconnectAttempts]_vars

\* C3: at most one received audio segment is playing.
C3_AtMostOnePlaying ==
    Cardinality({a \in AudioIds : el.audio[a] = "playing"}) <= 1

\* C6: a promise of connect() resolves only while the status is 'connected',
\* and the promise of a socket that closed without opening is not left
\* pending.
C6_ResolvesOnlyWhenConnected ==
    /\ el.obsResolvedAt \in {"none", "connected"}
    /\ \A s \in el.pending : el.readyState[s] # "CLOSED"

\* C10: segments start in the order received, one at a time, and a segment
\* starts only when every earlier one has started or was cleared.
C10_PlayInOrderOneAtATime ==
    /\ \A i, j \in DOMAIN el.obsStarted :
          i < j => el.obsStarted[i] < el.obsStarted[j]
    /\ Cardinality({a \in AudioIds : el.audio[a] \in {"starting", "playing"}}) <= 1
    /\ \A a, b \in AudioIds :
          (b < a /\ el.audio[a] \in {"starting", "playing", "done"})
             => el.audio[b] # "queued"

WMWireIds == [i \in 1 .. Len(wm.wire) |-> wm.wire[i].msg.id]

WMWrittenTo(s, q) ==
    [i \in 1 .. Len(q) |-> [sock |-> s, msg |-> WM_formatForGemini(q[i])]]

\* C4: messages are written in the order they were submitted, none twice,
\* and when a socket opens every buffered message is written to it, in
\* order, leaving the buffer empty.
C4_BufferedDeliveredInOrder ==
    /\ [](\A i, j \in DOMAIN WMWireIds : i < j => WMWireIds[i] < WMWireIds[j])
    /\ [][\A s \in SockIds :
            (wm.readyState[s] = "CONNECTING" /\ wm'.readyState[s] = "OPEN") =>
               /\ wm'.messageQueue = << >>
               /\ wm'.wire = wm.wire \o WMWrittenTo(s, wm.messageQueue)]_vars

\* C5: the manager has at most one socket that is connecting or open.
C5_AtMostOneLiveSocket ==
    Cardinality({s \in SockIds : wm.readyState[s] \in {"CONNECTING", "OPEN"}}) <= 1

\* C8: once WM_reconnectAttempts consecutive reconnect attempts have failed,
\* the status is 'disconnected' and no socket is created until the caller
\* calls connect().
C8_ExhaustedStaysDisconnected ==
    /\ [](wm.obsExhausted => wm.connectionStatus = "disconnected")
    /\ [][(wm.obsExhausted /\ wm'.obsExhausted) => wm'.nextSock = wm.nextSock]_vars

CVFields(st) ==
    <<st.ws, st.connected, st.reconnectAttempts, st.audioQueue,
      st.isPlayingAudio, st.conversationActive>>

CVBrowser(st) ==
    <<st.readyState, st.opened, st.pending, st.starting, st.timers, st.nextSock>>

\* C7: a send method called while this.ws is null or not open changes no
\* field, no socket and no timer and writes nothing, and no message
\* submitted that way is ever written to a socket.
C7_SendWhileClosedIsNoOp ==
    /\ [][(cv'.nextMsg # cv.nextMsg /\ (cv.ws = 0 \/ cv.readyState[cv.ws] # "OPEN")) =>
            /\ CVFields(cv') = CVFields(cv)
            /\ CVBrowser(cv') = CVBrowser(cv)
            /\ cv'.wire = cv.wire]_vars
    /\ [](\A i \in DOMAIN cv.wire : cv.wire[i].msg.id \notin cv.obsDropped)

\* C7 witness: a message was submitted while the socket was not open, and a
\* connection opened later has carried other traffic.
C7_Witness ==
    /\ cv.obsDropped # {}
    /\ cv.ws # 0 /\ cv.readyState[cv.ws] = "OPEN"
    /\ \E i \in DOMAIN cv.wire :
          cv.wire[i].sock = cv.ws /\ cv.wire[i].msg.id \notin cv.obsDropped
                                  /\ cv.wire[i].msg.id > 0

ELWireIds == {el.wire[i].msg.id : i \in DOMAIN el.wire}

\* C9: while the emotion connection has never been established,
\* startInterview() fails only if the ElevenLabs connect() failed, and every
\* message submitted through the store while the ElevenLabs socket was open
\* has been written to it or is still being read.
C9_InterviewWorksWithoutEmotion ==
    ~gd.obsEverOpen =>
        /\ (app.start = "rejected" => app.obsElRejected)
        /\ \A id \in app.obsOwed : id \in ELWireIds \/ id \in app.readers

\* The positions on the wire of client c that hold the pong of ping p.
PongsTo(c, p) ==
    {j \in DOMAIN c.wire : c.wire[j].msg = [type |-> "pong", event_id |-> p.id]}

\* Every ping client c received on its socket while that was open has exactly
\* one pong, and every pong c wrote carries the id of a ping c received.
PingsAnswered(c) ==
    /\ \A p \in c.obsPings :
          (p.open /\ p.current) => Cardinality(PongsTo(c, p)) = 1
    /\ \A j \in DOMAIN c.wire :
          ("type" \in DOMAIN c.wire[j].msg /\ c.wire[j].msg.type = "pong") =>
              \E p \in c.obsPings : j \in PongsTo(c, p)

\* C11: in the voice chat and in the realtime conversation each ping received
\* on the client's open socket is answered by exactly one pong whose event_id is the
\* event_id of the ping_event of that ping.
C11_PingAnsweredByMatchingPong == PingsAnswered(vc) /\ PingsAnswered(rt)

\* C12: the timer whose callback makes the k-th consecutive reconnect attempt
\* (k = 1, 2, 3) was set with a delay of k times reconnectDelay.
C12_DelayIsAttemptTimesBase ==
    [][el'.obsReconnects = el.obsReconnects + 1 =>
          el.timers = el'.timers (+) SetToBag({reconnectDelay * el'.obsReconnects})]_vars

\* The place of a session status on the path configuring, in-progress,
\* completed.
StatusRank(status) ==
    CASE status = "configuring" -> 0
      [] status = "in-progress" -> 1
      [] status = "completed" -> 2
      [] OTHER -> 3

\* C13: the status of one session never moves backwards on the path
\* configuring, in-progress, completed; a completed session is never in
\* progress again.
C13_StatusOnlyMovesForward ==
    [][(app.session # "null" /\ app'.sessionId = app.sessionId) =>
          StatusRank(app'.session) >= StatusRank(app.session)]_vars

\* C14: a message that was in the queue when disconnect() was called is no
\* longer in the queue afterwards and is never written to a socket.
C14_QueueEndsWithSession ==
    /\ \A i \in DOMAIN wm.messageQueue : wm.messageQueue[i].id \notin wm.obsStale
    /\ \A i \in DOMAIN WMWireIds : WMWireIds[i] \notin wm.obsStale

\* Some socket of the manager reports open in this step.
WMOpens == \E s \in SockIds : wm.readyState[s] = "CONNECTING" /\ wm'.readyState[s] = "OPEN"

\* C15 as stated: no socket or timer event makes reconnectAttempts smaller.
C15_CounterNeverDecreases ==
    [][wm'.obsCalls = wm.obsCalls =>
          wm'.reconnectAttempts >= wm.reconnectAttempts]_vars

\* C15 amended: no socket or timer event other than the opening of a socket
\* makes reconnectAttempts smaller, the opening of a socket sets it to 0, and
\* it never exceeds WM_reconnectAttempts.
C15_CounterDecreasesOnlyOnOpen ==
    /\ [](wm.reconnectAttempts \in 0 .. WM_reconnectAttempts)
    /\ [][(wm'.obsCalls = wm.obsCalls /\ ~WMOpens) =>
             wm'.reconnectAttempts >= wm.reconnectAttempts]_vars
    /\ [][WMOpens => wm'.reconnectAttempts = 0]_vars

\* C15 witness: after one connect() a socket made by the reconnect timer, hence
\* with the counter above 0, has opened and the counter is 0.
C15_Witness ==
    /\ wm.obsCalls = 1
    /\ wm.ws >= 2
    /\ wm.readyState[wm.ws] = "OPEN"
    /\ wm.reconnectAttempts = 0

\* The fields of the service.
ELFields(st) ==
    <<st.ws, st.connectionStatus, st.reconnectAttempts, st.audioQueue,
      st.isPlayingAudio>>

\* The sockets, promises, timers, audio elements and written frames.
ELBrowser(st) ==
    <<st.readyState, st.opened, st.pending, st.timers, st.nextSock, st.wire,
      st.audio, st.nextAudio>>

\* C16: a connect() of the caller while the status is 'connecting' or
\* 'connected' creates no socket, promise or timer and changes no field; the
\* connect() of a reconnect timer in that status creates no socket either.
C16_ConnectIdempotent ==
    /\ [][(el'.obsCalls # el.obsCalls /\ ~el'.obsDown
             /\ el.connectionStatus \in {"connecting", "connected"}) =>
             /\ ELFields(el') = ELFields(el)
             /\ ELBrowser(el') = ELBrowser(el)]_vars
    /\ [][(BagCardinality(el'.timers) < BagCardinality(el.timers)
             /\ el.connectionStatus \in {"connecting", "connected"}) =>
             /\ el'.nextSock = el.nextSock
             /\ el'.ws = el.ws
             /\ el'.readyState = el.readyState]_vars

\* C16 witness: of two connect() calls the second found the status
\* 'connecting' and returned; there is one socket.
C16_Witness ==
    /\ el.obsCalls = 2
    /\ el.obsResolvedAt = "connecting"
    /\ el.nextSock = 2
    /\ el.readyState[1] = "CONNECTING"

\* C17: a frame that is not JSON or whose type is unknown changes no field,
\* writes nothing, sets no timer and invokes no callback; every other frame,
\* also after such a frame, is dispatched: a ping sets the timer of its pong
\* and any other type invokes the callback of its type.
C17_BadFrameDropped ==
    /\ [][(el'.nextFrame # el.nextFrame /\ el'.obsLastFrame = "bad") =>
             /\ ELFields(el') = ELFields(el)
             /\ ELBrowser(el') = ELBrowser(el)
             /\ el'.pongTimers = el.pongTimers
             /\ el'.obsCallbacks = el.obsCallbacks]_vars
    /\ [][(el'.nextFrame # el.nextFrame /\ el'.obsLastFrame = "good") =>
             \/ el'.pongTimers = el.pongTimers \cup {el.nextFrame}
                  /\ el.nextFrame \notin el.pongTimers
             \/ Len(el'.obsCallbacks) = Len(el.obsCallbacks) + 1]_vars

\* C17 witness: a frame was dropped and the frame after it was dispatched to
\* its callback.
C17_Witness ==
    /\ el.obsDropped = 1
    /\ el.nextFrame = 3
    /\ el.obsLastFrame = "good"
    /\ Len(el.obsCallbacks) = 1

\* C18: handling an empty batch throws nothing, does not call
\* onStressLevelChange and leaves currentMood, stressLevel and engagementLevel
\* as they were.
C18_EmptyBatchHarmless ==
    [][(app'.nextBatch # app.nextBatch /\ app'.currentEmotions = << >>) =>
          /\ ~app'.obsThrew
          /\ app'.obsStressCalls = app.obsStressCalls
          /\ app'.currentMood = app.currentMood
          /\ app'.stressLevel = app.stressLevel
          /\ app'.engagementLevel = app.engagementLevel]_vars

\* C18 witness: after a batch that set the mood and the stress level an empty
\* batch was handled and both are still set.
C18_Witness ==
    /\ app.nextBatch = 3
    /\ app.currentEmotions = << >>
    /\ app.currentMood = "stress"
    /\ app.stressLevel = [num |-> 80, den |-> 100]
    /\ app.obsStressCalls = 1
    /\ ~app.obsThrew

\* C19: startDetection() opens a Gemini socket exactly when preferGemini and
\* the API key are set; when the promise of that socket rejects, by error or
\* by timeout, the call goes on with face-api.js; the call rejects only out
\* of a failed start of face-api.js, then isConnected is false and false was
\* reported; it resolves otherwise, then isConnected is true and true was
\* reported.
C19_GeminiFirstThenFaceApi ==
    /\ [][(ed'.obsCalls # ed.obsCalls /\ ed'.isActive) =>
             IF ed.config.preferGemini /\ ed.config.apiKey
             THEN ed'.start = "gemini" /\ ed'.nextSock = ed.nextSock + 1
             ELSE ed'.start \in {"load", "media"} /\ ed'.nextSock = ed.nextSock]_vars
    /\ [][(ed.start = "gemini" /\ ed'.start # "gemini") =>
             \/ ed'.start = "resolved" /\ ed'.readyState[ed.startSock] = "OPEN"
             \/ ed'.start \in {"load", "media"}]_vars
    /\ [][(ed.start # "rejected" /\ ed'.start = "rejected") =>
             /\ ed.start = "media"
             /\ ed'.obsMediaFailed
             /\ ~ed'.isConnected
             /\ ed'.obsLastChange = "false"]_vars
    /\ [][(ed.start # "resolved" /\ ed'.start = "resolved") =>
             /\ ed'.isConnected
             /\ ed'.obsLastChange = "true"]_vars
    /\ [][(ed.start = "media" /\ ed'.start # "media") =>
             ed'.start = IF ed'.obsMediaFailed THEN "rejected" ELSE "resolved"]_vars

\* C19 witness: the Gemini socket failed, face-api.js started instead and
\* the call resolved.
C19_Witness ==
    /\ ed.config.preferGemini /\ ed.config.apiKey
    /\ ed.obsCalls = 1
    /\ ed.obsFellBack
    /\ ed.start = "resolved"
    /\ ed.isConnected
    /\ ed.stream
    /\ ed.obsLastChange = "true"

\* C20: the audio buffer of the detector holds at most
\* floor(5000 / analysisInterval) chunks, and they are the chunks added last,
\* in the order they were added.
C20_BufferHoldsLatestChunks ==
    /\ Len(gd.audioBuffer) <= 5000 \div gd.analysisInterval
    /\ \A i \in 1 .. Len(gd.audioBuffer) :
          gd.audioBuffer[i] = gd.nextChunk - 1 - (Len(gd.audioBuffer) - i)

\* C21: the detector never writes audio to a socket that is null or not open:
\* no FileReader of processAudioBufferForEmotion completes while this.ws is
\* null or its socket is not OPEN (disconnect() or a close event in between).
C21_ReaderNeverWritesToClosedSocket == ~gd.obsBadWrite

\* C22: the flush that handleOpen performs when a socket opens terminates
\* and leaves the queue empty, whatever connect(), send*() calls and open
\* events came before (the socket that opens may have been replaced).
C22_FlushTerminatesAndEmptiesQueue ==
    [][WMOpens => (~wm'.hung /\ Len(wm'.messageQueue) = 0)]_vars

\* C23: the close event of a socket that disconnect() tore down (it is
\* CLOSING) while this.ws refers to a newer socket leaves the newer
\* connection alone: the reference, the status and the reconnect timers are
\* as before.
C23_StaleCloseLeavesNewConnection ==
    [][\A s \in SockIds :
          (/\ wm.readyState[s] = "CLOSING"
           /\ wm'.readyState[s] = "CLOSED"
           /\ wm.ws # 0
           /\ wm.ws # s)
          => /\ wm'.ws = wm.ws
             /\ wm'.connectionStatus = wm.connectionStatus
             /\ wm'.reconnectTimer = wm.reconnectTimer
             /\ wm'.lostTimers = wm.lostTimers]_vars

\* C24: once stopDetection() has completed and until startDetection() is
\* called again, isConnected is false, no periodic analysis timer runs and
\* no camera stream is held, also when an earlier startDetection() was still
\* awaiting its Gemini or face-api.js start.
C24_StoppedStaysStopped ==
    ed.obsStopped => (~ed.isConnected /\ ~ed.analysisTimer /\ ~ed.stream)

\* C25: once disconnect() has returned and until connect() is called again,
\* the voice chat holds no microphone stream and no audio context, also when
\* startMicrophone() was still awaiting getUserMedia.
C25_DisconnectedHoldsNoMicrophone ==
    vc.obsDisconnected => (~vc.stream /\ ~vc.audioContext)

\* C26: every pong the conversation service writes goes to the socket that
\* delivered the ping it answers, never to a socket of a later reconnect or
\* connect().
C26_PongOnPingsConnection ==
    [][(el'.pongTimers # el.pongTimers /\ Len(el'.wire) = Len(el.wire) + 1) =>
          [sock |-> el'.wire[Len(el'.wire)].sock,
           id |-> el'.wire[Len(el'.wire)].msg.id] \in el.obsPings]_vars

\* What onConnectionStatusChange leaves in connectionState c for the flags e
\* and g: 'connected' iff both, 'connecting' iff exactly one, 'disconnected'
\* iff neither.
OverallMatches(c, e, g) ==
    /\ c.elevenlabs = e
    /\ c.gemini = g
    /\ (c.overall = "connected") <=> (e /\ g)
    /\ (c.overall = "connecting") <=> (e # g)
    /\ (c.overall = "disconnected") <=> (~e /\ ~g)

\* C27: in every state of the store overall = 'connected' implies that both
\* flags are true; the callback onConnectionStatusChange leaves overall in
\* step with the two flags it was given, in every state and for all flags,
\* and so does every event of the service that changes its flags and
\* reports no error.
C27_OverallFollowsFlags ==
    /\ [](app.connectionState.overall = "connected" =>
              (app.connectionState.elevenlabs /\ app.connectionState.gemini))
    /\ [](\A e, g \in BOOLEAN :
              OverallMatches(STORE_onConnectionStatusChange(app, e, g).connectionState,
                             e, g))
    /\ [][(app'.connectionStatus # app.connectionStatus
             /\ app'.connectionState.overall # "error") =>
          OverallMatches(app'.connectionState,
                         app'.connectionStatus.elevenlabs,
                         app'.connectionStatus.gemini)]_vars

C27_Witness ==
    /\ app.connectionState.overall = "connected"
    /\ app.connectionStatus.elevenlabs
    /\ app.connectionStatus.gemini
    /\ app.start = "resolved"


\* The fields of the store.
StoreFields(a) ==
    <<a.session, a.sessionId, a.messages, a.sessionHistory, a.isSetupComplete,
      a.transcript, a.integratedService, a.connectionState, a.currentEmotions,
      a.currentMood, a.stressLevel, a.engagementLevel>>

\* C28: whenever there is a current session its messages are the store's
\* transcript, the same messages in the same order, and addMessage without a
\* current session changes no field of the store.
C28_MessagesAreTheTranscript ==
    /\ [](app.session # "null" => app.messages = app.transcript)
    /\ [][(app'.nextChat # app.nextChat /\ app.session = "null") =>
              StoreFields(app') = StoreFields(app)]_vars

C28_Witness ==
    /\ app.sessionId = 2
    /\ Len(app.messages) = 1
    /\ Len(app.sessionHistory) = 1
    /\ Len(app.sessionHistory[1].messages) = 1

\* C29: completeSession without a current session throws and changes no
\* field of the store; with one it appends that session to the end of
\* sessionHistory, keeps the earlier entries in their order and sets
\* currentSession to null.
C29_CompleteSessionAppends ==
    [][app'.obsCompletes = app.obsCompletes + 1 =>
          IF app.session = "null"
          THEN /\ app'.obsCompleteThrew
               /\ StoreFields(app') = StoreFields(app)
          ELSE /\ ~app'.obsCompleteThrew
               /\ app'.sessionHistory =
                      Append(app.sessionHistory,
                             [id |-> app.sessionId, status |-> app.session,
                              messages |-> app.messages])
               /\ app'.session = "null"
               /\ app'.sessionId = 0]_vars

C29_Witness ==
    /\ Len(app.sessionHistory) = 2
    /\ app.sessionHistory[1].id = 1
    /\ app.sessionHistory[2].id = 2
    /\ app.obsCompletes = 3
    /\ app.obsCompleteThrew

====
